---------------------------- MODULE Spec2Model ----------------------------
(***************************************************************************)
(* Crop disease detection service: the inference request pipeline.         *)
(*                                                                         *)
(*   backend/model_loader.py       model locator, class-index resolver,    *)
(*                                 model loader, predict_image             *)
(*   model_loader.py               the single-path variant of the loader   *)
(*   backend/app.py, server.py     the /predict handlers (label parser,    *)
(*                                 response record)                        *)
(*   backend/recommendation_engine.py   the advisory table and resolver    *)
(*   model/train_model.py, config.py,   the trainer and the artifacts it   *)
(*   dataset_loader.py                  saves                              *)
(*   crop_disease_project/backend/utils.py   the CSV logs                  *)
(*                                                                         *)
(* Python strings are sequences of one-character strings, so that strip,   *)
(* lower, replace, split and the substring test are computed character by  *)
(* character.  Advisory texts are sequences of non-empty text chunks (a    *)
(* literal of the source is one chunk, an interpolated name contributes    *)
(* its characters); a text is the empty string iff its sequence is empty.  *)
(***************************************************************************)
EXTENDS Integers, Sequences, FiniteSets, TLC

VARIABLES
    \* ---- filesystem and model locator (backend/model_loader.py, module level) ----
    files,              \* the set of paths that exist
    MODEL_PATH,         \* the resolved weights path, NoPath while unset
    CLASS_INDICES_PATH, \* the resolved class-index path, NoPath while unset
    locState,           \* "importing" | "imported"
    \* ---- load_model_and_classes ----
    loaderModule,       \* "backend": backend/model_loader.py, "root": model_loader.py
    class_file,         \* the parse of the class-index file
    weights_file,       \* head width stored in the weights file, 0: not loadable
    load,               \* outcome of load_model_and_classes and its locals
    \* ---- predict_image ----
    predState,          \* "idle" | "returned" | "raised"
    predError,          \* the exception type raised, "none" otherwise
    argmax_idx,         \* the arg-max index, -1 when none was computed
    predicted_label,    \* the label returned
    \* ---- /predict handlers (backend/app.py, backend/server.py) ----
    respState,          \* "idle" | "responded" | "raised"
    handler,            \* "app" | "server", "none" before
    handler_crop,       \* the handler's local crop_name
    handler_disease,    \* the handler's local disease_name
    response,           \* the response sent
    \* ---- recommendation resolver (get_recommendation) ----
    crop_arg,           \* the crop_name argument (a Python str or None)
    disease_arg,        \* the disease_name argument (a Python str or None)
    recEngine,          \* the module called: "backend" | "crop_disease", "none" before
    recState,           \* "idle" | "returned" | "raised"
    recBranch,          \* which return statement produced the record
    recommendation,     \* the dict returned
    \* ---- the two encodings of one class-index bijection ----
    bijection,          \* labels: bijection[i] is the label of index i-1
    digit_keyed,        \* the file {"<i>": label}
    label_keyed,        \* the file {label: i}
    digit_map,          \* the resolver's result on digit_keyed
    label_map,          \* the resolver's result on label_keyed
    \* ---- the server process (backend/app.py, backend/server.py) ----
    entry_point,        \* the module uvicorn serves: "app" | "server", "none" before
    process,            \* "importing" | "starting" | "serving" | "aborted"
    app_globals,        \* model, idx_to_class of backend/app.py
    server_globals,     \* model, idx_to_class of backend/server.py
    rule_base,          \* the RECOMMENDATIONS dict of recommendation_engine.py
    diagnostic,         \* the error that ended or was printed by the startup
    load_calls,         \* how many times load_model_and_classes was called
    requests,           \* per request: its upload, its position, its response
    \* ---- training (model/train_model.py, model/config.py, model/dataset_loader.py) ----
    config,             \* the Config the trainer was built with
    train_classes,      \* how many class sub-directories the training data has
    trainer,            \* the ModelTrainer: its position, model head, best accuracy
    saved_models,       \* the artifacts at the save path: weights and class indices
    \* ---- CSV logs (crop_disease_project/backend/utils.py) ----
    logs_dir,           \* per log file: whether it exists and its rows
    log_calls           \* per logging call: its position and what isfile answered

locVars == <<MODEL_PATH, CLASS_INDICES_PATH, locState>>
loadVars == <<loaderModule, class_file, weights_file, load>>
predVars == <<predState, predError, argmax_idx, predicted_label>>
respVars == <<respState, handler, handler_crop, handler_disease, response>>
recVars == <<crop_arg, disease_arg, recEngine, recState, recBranch, recommendation>>
resolveVars == <<bijection, digit_keyed, label_keyed, digit_map, label_map>>

serveVars == <<entry_point, process, app_globals, server_globals, rule_base,
               diagnostic, load_calls, requests>>

trainVars == <<config, train_classes, trainer, saved_models>>
logVars == <<logs_dir, log_calls>>

vars == <<files, locVars, loadVars, predVars, respVars, recVars, resolveVars,
          serveVars, trainVars, logVars>>

-----------------------------------------------------------------------------
(* Bounds of the model *)

\* Longest generated argument string of get_recommendation.
MaxArgLen == 2

\* Most members of a class-index file.
MaxEntries == 2

\* Widest head stored in a weights file.
MaxHead == 2

\* Longest generated label handed to the label parser.
MaxLabelLen == 7

-----------------------------------------------------------------------------
(* Python str operations *)

Whitespace == {" ", "\t", "\n"}

UpperChars == <<"A", "B", "C", "D", "E", "F", "G", "H", "I", "J", "K", "L", "M",
                "N", "O", "P", "Q", "R", "S", "T", "U", "V", "W", "X", "Y", "Z">>
LowerChars == <<"a", "b", "c", "d", "e", "f", "g", "h", "i", "j", "k", "l", "m",
                "n", "o", "p", "q", "r", "s", "t", "u", "v", "w", "x", "y", "z">>

\* str.lower() on one character
LowerChar(c) ==
    IF \E i \in 1..Len(UpperChars) : UpperChars[i] = c
    THEN LowerChars[CHOOSE i \in 1..Len(UpperChars) : UpperChars[i] = c]
    ELSE c

\* str.lower()
Lower(s) == [i \in 1..Len(s) |-> LowerChar(s[i])]

RECURSIVE LStrip(_)
LStrip(s) ==
    IF Len(s) > 0 /\ s[1] \in Whitespace THEN LStrip(Tail(s)) ELSE s

RECURSIVE RStrip(_)
RStrip(s) ==
    IF Len(s) > 0 /\ s[Len(s)] \in Whitespace
    THEN RStrip(SubSeq(s, 1, Len(s) - 1))
    ELSE s

\* str.strip(): leading and trailing whitespace removed
Strip(s) == RStrip(LStrip(s))

\* s.startswith(p)
StartsWith(s, p) == Len(p) <= Len(s) /\ SubSeq(s, 1, Len(p)) = p

\* s.find(sub): the 0-based index of the leftmost occurrence, -1 if none
Find(s, sub) ==
    LET hits == {i \in 0..(Len(s) - Len(sub)) : SubSeq(s, i + 1, i + Len(sub)) = sub}
    IN  IF hits = {} THEN -1 ELSE CHOOSE i \in hits : \A j \in hits : i <= j

\* sub in s
Contains(sub, s) == Find(s, sub) # -1

\* s.replace(old, new) for a non-empty old: non-overlapping occurrences,
\* scanned left to right, in a single pass
RECURSIVE Replace(_, _, _)
Replace(s, old, new) ==
    IF Len(s) = 0 THEN <<>>
    ELSE IF StartsWith(s, old)
         THEN new \o Replace(SubSeq(s, Len(old) + 1, Len(s)), old, new)
         ELSE <<s[1]>> \o Replace(Tail(s), old, new)

\* A Python value that is a str or None
PyNone == [none |-> TRUE, s |-> <<>>]
PyStr(s) == [none |-> FALSE, s |-> s]

\* truth value of a str-or-None: None and "" are falsy
Truthy(x) == ~x.none /\ Len(x.s) > 0

SEP == <<"_", "_", "_">>

-----------------------------------------------------------------------------
(* backend/recommendation_engine.py *)

Rec_Apple_Apple_scab ==
    [ key |-> <<"A", "p", "p", "l", "e", "_", "_", "_", "A", "p", "p", "l", "e", "_", "s", "c", "a", "b">>,
      rec |-> [ disease_description |-> <<"Fungal disease causing olive-brown spots on apple leaves and fruits.">>,
                symptoms |-> <<"Velvety dark spots on leaves, distorted fruits, premature leaf fall.">>,
                treatment_organic |-> <<"Prune infected twigs and branches. Remove fallen leaves. Use sulfur-based fungicidal sprays and neem oil as per local guidelines.">>,
                treatment_chemical |-> <<"Apply recommended systemic fungicides following local agricultural department guidelines and pre-harvest intervals.">>,
                preventive_measures |-> <<"Plant resistant varieties where possible, maintain proper spacing for air circulation, and avoid overhead irrigation late in the day.">> ] ]

Rec_Potato_Early_blight ==
    [ key |-> <<"P", "o", "t", "a", "t", "o", "_", "_", "_", "E", "a", "r", "l", "y", "_", "b", "l", "i", "g", "h", "t">>,
      rec |-> [ disease_description |-> <<"Fungal disease causing concentric ring spots and defoliation in potato.">>,
                symptoms |-> <<"Dark brown concentric spots on older leaves, yellowing, premature defoliation.">>,
                treatment_organic |-> <<"Remove affected leaves. Improve soil health with compost. Use copper-based or biological fungicides, and ensure crop rotation.">>,
                treatment_chemical |-> <<"Apply recommended protectant fungicides (e.g., mancozeb-type compounds) as per local extension recommendations.">>,
                preventive_measures |-> <<"Use certified seed, avoid overhead irrigation, maintain proper spacing and rotate with non-host crops.">> ] ]

Rec_Potato_Late_blight ==
    [ key |-> <<"P", "o", "t", "a", "t", "o", "_", "_", "_", "L", "a", "t", "e", "_", "b", "l", "i", "g", "h", "t">>,
      rec |-> [ disease_description |-> <<"Serious disease of potato causing leaf blight and tuber rot.">>,
                symptoms |-> <<"Water-soaked lesions on leaves, white fungal growth on undersides, tuber rot.">>,
                treatment_organic |-> <<"Remove and destroy severely infected plants. Use biofungicides and ensure good field drainage.">>,
                treatment_chemical |-> <<"Use recommended systemic fungicides at early signs of infection, following label instructions and local regulations.">>,
                preventive_measures |-> <<"Plant tolerant varieties, avoid late planting in disease-prone areas, ensure proper hilling and field drainage.">> ] ]

Rec_Tomato_Late_blight ==
    [ key |-> <<"T", "o", "m", "a", "t", "o", "_", "_", "_", "L", "a", "t", "e", "_", "b", "l", "i", "g", "h", "t">>,
      rec |-> [ disease_description |-> <<"Highly destructive fungal disease of tomato foliage and fruit.">>,
                symptoms |-> <<"Dark water-soaked lesions on leaves and stems, white fungal growth in humid conditions.">>,
                treatment_organic |-> <<"Remove infected plant parts, avoid overhead irrigation, and apply approved biofungicides.">>,
                treatment_chemical |-> <<"Use recommended fungicides in rotation to avoid resistance, always respect safety intervals and dosage.">>,
                preventive_measures |-> <<"Plant resistant varieties, maintain field hygiene, ensure good air circulation.">> ] ]

Rec_Tomato_Leaf_Mold ==
    [ key |-> <<"T", "o", "m", "a", "t", "o", "_", "_", "_", "L", "e", "a", "f", "_", "M", "o", "l", "d">>,
      rec |-> [ disease_description |-> <<"Fungal disease causing yellow spots and mold growth on leaves.">>,
                symptoms |-> <<"Yellow spots on upper leaf surfaces and olive-green mold below; leaves may curl and drop.">>,
                treatment_organic |-> <<"Improve ventilation in greenhouses, prune lower leaves, and use sulfur or biofungicides approved for tomato.">>,
                treatment_chemical |-> <<"Use recommended fungicides according to local guidelines and rotate active ingredients.">>,
                preventive_measures |-> <<"Avoid high humidity, provide good air movement, and avoid overhead irrigation.">> ] ]

Rec_Corn_maize_Common_rust ==
    [ key |-> <<"C", "o", "r", "n", "_", "(", "m", "a", "i", "z", "e", ")", "_", "_", "_", "C", "o", "m", "m", "o", "n", "_", "r", "u", "s", "t", "_">>,
      rec |-> [ disease_description |-> <<"Rust disease of maize causing reddish-brown pustules on leaves.">>,
                symptoms |-> <<"Small elongated pustules on both leaf surfaces that later turn dark.">>,
                treatment_organic |-> <<"Use resistant varieties where available, and remove severely infected plants when feasible.">>,
                treatment_chemical |-> <<"Apply recommended fungicides if disease pressure is high, depending on local guidelines.">>,
                preventive_measures |-> <<"Rotate crops, avoid dense planting, and monitor fields regularly.">> ] ]

RECOMMENDATIONS ==
    << Rec_Apple_Apple_scab,
       Rec_Potato_Early_blight,
       Rec_Potato_Late_blight,
       Rec_Tomato_Late_blight,
       Rec_Tomato_Leaf_Mold,
       Rec_Corn_maize_Common_rust >>

AdvisoryFields ==
    {"disease_description", "symptoms", "treatment_organic",
     "treatment_chemical", "preventive_measures"}

\* a lookup of the lower-cased key
TableGetLower(key) ==
    IF \E i \in 1..Len(RECOMMENDATIONS) : RECOMMENDATIONS[i].key = Lower(key)
    THEN CHOOSE i \in 1..Len(RECOMMENDATIONS) : RECOMMENDATIONS[i].key = Lower(key)
    ELSE 0

\* RECOMMENDATIONS.get(key): the index of the entry with that key, 0 for None
TableGet(key) ==
    IF \E i \in 1..Len(RECOMMENDATIONS) : RECOMMENDATIONS[i].key = key
    THEN CHOOSE i \in 1..Len(RECOMMENDATIONS) : RECOMMENDATIONS[i].key = key
    ELSE 0

\* the dict returned for a healthy plant
HealthyRecord(crop_name) ==
    [ disease_description |->
          <<"The ">> \o crop_name \o
          <<" crop appears to be healthy with no signs of disease detected.">>,
      symptoms |-> <<"No symptoms detected. The crop appears healthy.">>,
      treatment_organic |->
          <<"No treatment needed. Continue with regular healthy crop management practices.">>,
      treatment_chemical |->
          <<"No chemical treatment needed. Maintain good agricultural practices to prevent future disease outbreaks.">> ]

\* a generic advice that names neither the crop nor the disease
GenericRecordAnonymous(crop_name, disease_name) ==
    [ disease_description |->
          <<"The system detected a potential issue with the crop. Detailed information for this specific disease is not available in the rule base.">>,
      symptoms |->
          <<"Check for spots, discoloration, wilting, or unusual growth on leaves and stems.">>,
      treatment_organic |->
          <<"Remove and safely dispose of heavily infected plant parts.">>,
      treatment_chemical |->
          <<"Consult a local agricultural extension officer or certified agronomist.">>,
      preventive_measures |->
          <<"Use disease-free seed and seedlings.">> ]

\* the generic advice for unknown diseases
GenericRecord(crop_name, disease_name) ==
    [ disease_description |->
          <<"The system detected a potential issue with ">> \o crop_name \o
          <<" crop. Detected condition: ">> \o disease_name \o
          <<". Detailed information for this specific disease is not available in the rule base.">>,
      symptoms |->
          <<"Check for spots, discoloration, wilting, or unusual growth on leaves and stems. Consult with an agricultural expert for specific symptoms of this condition.">>,
      treatment_organic |->
          <<"Remove and safely dispose of heavily infected plant parts. Maintain field hygiene and improve soil health with compost or organic amendments. Consider consulting with a local agricultural extension officer for organic treatment options.">>,
      treatment_chemical |->
          <<"Consult a local agricultural extension officer or certified agronomist for appropriate and safe chemical treatment based on local recommendations. Always follow label instructions and safety guidelines.">>,
      preventive_measures |->
          <<"Use disease-free seed and seedlings, practice crop rotation, maintain proper spacing and irrigation, and monitor the field regularly. Implement good agricultural practices to prevent disease spread.">> ]

\* the healthy test with a case-sensitive comparison
IsHealthyNameExact(disease_name) ==
    \/ Len(disease_name) = 0
    \/ disease_name = <<"h", "e", "a", "l", "t", "h", "y">>

\* the healthy test of get_recommendation, on the stripped disease name
IsHealthyName(disease_name) ==
    \/ Len(disease_name) = 0
    \/ Lower(disease_name) = <<"h", "e", "a", "l", "t", "h", "y">>
    \/ disease_name = <<" ">>

\* key.replace(" ", "_").replace("__", "_")
NormalizeKey(key) == Replace(Replace(key, <<" ">>, <<"_">>), <<"_", "_">>, <<"_">>)

\* a partial match that keeps the last matching entry
PartialMatchLast(crop_name, disease_name) ==
    LET hits == {i \in 1..Len(RECOMMENDATIONS) :
                    /\ Contains(Lower(crop_name), Lower(RECOMMENDATIONS[i].key))
                    /\ Contains(Lower(disease_name), Lower(RECOMMENDATIONS[i].key))}
    IN  IF hits = {} THEN 0 ELSE CHOOSE i \in hits : \A j \in hits : j <= i

\* the partial-match loop: the first table entry, in insertion order, whose
\* lowercase key contains the lowercase crop and the lowercase disease; 0 if none
PartialMatch(crop_name, disease_name) ==
    LET hits == {i \in 1..Len(RECOMMENDATIONS) :
                    /\ Contains(Lower(crop_name), Lower(RECOMMENDATIONS[i].key))
                    /\ Contains(Lower(disease_name), Lower(RECOMMENDATIONS[i].key))}
    IN  IF hits = {} THEN 0 ELSE CHOOSE i \in hits : \A j \in hits : i <= j

\* get_recommendation(crop_name, disease_name): the branch taken, the table
\* entry matched (0 when none) and the dict returned
get_recommendation(crop_in, disease_in) ==
    LET crop_name    == IF Truthy(crop_in) THEN Strip(crop_in.s) ELSE <<>>
        disease_name == IF Truthy(disease_in) THEN Strip(disease_in.s) ELSE <<>>
        key          == crop_name \o SEP \o disease_name
        exact        == TableGet(key)
        normalized   == TableGet(NormalizeKey(key))
        partial      == PartialMatch(crop_name, disease_name)
    IN  IF IsHealthyName(disease_name)
        THEN [branch |-> "healthy", entry |-> 0, rec |-> HealthyRecord(crop_name)]
        ELSE IF exact # 0
        THEN [branch |-> "exact", entry |-> exact, rec |-> RECOMMENDATIONS[exact].rec]
        ELSE IF normalized # 0
        THEN [branch |-> "normalized", entry |-> normalized,
              rec |-> RECOMMENDATIONS[normalized].rec]
        ELSE IF partial # 0
        THEN [branch |-> "partial", entry |-> partial,
              rec |-> RECOMMENDATIONS[partial].rec]
        ELSE [branch |-> "fallback", entry |-> 0,
              rec |-> GenericRecord(crop_name, disease_name)]

\* the generic advice of crop_disease/backend/recommendation_engine.py
GenericRecordCropDisease ==
    [ disease_description |->
          <<"The system detected a potential issue with the crop. Detailed information for this specific disease is not available in the rule base.">>,
      symptoms |->
          <<"Check for spots, discoloration, wilting, or unusual growth on leaves and stems.">>,
      treatment_organic |->
          <<"Remove and safely dispose of heavily infected plant parts. Maintain field hygiene and improve soil health with compost or organic amendments.">>,
      treatment_chemical |->
          <<"Consult a local agricultural extension officer or certified agronomist for appropriate and safe chemical treatment based on local recommendations.">>,
      preventive_measures |->
          <<"Use disease-free seed and seedlings, practice crop rotation, maintain proper spacing and irrigation, and monitor the field regularly.">> ]

\* an f-string field: the text of a str, "None" for None
FormatStr(x) == IF x.none THEN <<"N", "o", "n", "e">> ELSE x.s

\* get_recommendation of crop_disease/backend/recommendation_engine.py: one
\* lookup of the unstripped key (the bare crop when the disease is falsy),
\* then the generic advice
get_recommendation_crop_disease(crop_in, disease_in) ==
    LET key == IF Truthy(disease_in)
               THEN PyStr(FormatStr(crop_in) \o SEP \o FormatStr(disease_in))
               ELSE crop_in
        rec == IF key.none THEN 0 ELSE TableGet(key.s)
    IN  IF rec # 0
        THEN [branch |-> "exact", entry |-> rec, rec |-> RECOMMENDATIONS[rec].rec]
        ELSE [branch |-> "fallback", entry |-> 0, rec |-> GenericRecordCropDisease]

-----------------------------------------------------------------------------
(* Python values and dicts *)

\* a JSON / Python value that is an int or a str
IntV(n) == [t |-> "int", n |-> n, s |-> <<>>]
StrV(s) == [t |-> "str", n |-> 0, s |-> s]

Digits == <<"0", "1", "2", "3", "4", "5", "6", "7", "8", "9">>

IsDigitChar(c) == \E i \in 1..Len(Digits) : Digits[i] = c

DigitValue(c) == (CHOOSE i \in 1..Len(Digits) : Digits[i] = c) - 1

\* str.isdigit(): at least one character, every character a digit
IsDigit(s) == Len(s) > 0 /\ \A i \in 1..Len(s) : IsDigitChar(s[i])

RECURSIVE DecimalValue(_)
DecimalValue(s) ==
    IF Len(s) = 0 THEN 0
    ELSE DecimalValue(SubSeq(s, 1, Len(s) - 1)) * 10 + DigitValue(s[Len(s)])

\* int(s) for a str: surrounding whitespace, one optional sign, decimal digits
\* with single underscores between them; anything else raises ValueError
IntOfStr(s) ==
    LET t      == Strip(s)
        signed == Len(t) > 0 /\ t[1] \in {"+", "-"}
        body   == IF signed THEN Tail(t) ELSE t
        valid  == /\ Len(body) > 0
                  /\ \A i \in 1..Len(body) : IsDigitChar(body[i]) \/ body[i] = "_"
                  /\ IsDigitChar(body[1])
                  /\ IsDigitChar(body[Len(body)])
                  /\ ~Contains(<<"_", "_">>, body)
        value  == DecimalValue(SelectSeq(body, IsDigitChar))
    IN  IF ~valid THEN [raised |-> TRUE, n |-> 0]
        ELSE [raised |-> FALSE, n |-> IF signed /\ t[1] = "-" THEN 0 - value ELSE value]

\* A dict is the sequence of its items in insertion order.
DictKeys(d) == {d[i].k : i \in 1..Len(d)}

\* key in d
DictHas(d, key) == \E i \in 1..Len(d) : d[i].k = key

\* d[key], for a key of d
DictGet(d, key) == d[CHOOSE i \in 1..Len(d) : d[i].k = key].v

\* d[key] = value: a present key keeps its position and takes the new value
DictSet(d, key, value) ==
    IF DictHas(d, key)
    THEN [i \in 1..Len(d) |-> IF d[i].k = key THEN [k |-> key, v |-> value] ELSE d[i]]
    ELSE Append(d, [k |-> key, v |-> value])

-----------------------------------------------------------------------------
(* backend/model_loader.py: the model locator (module level) *)

POSSIBLE_MODEL_PATHS ==
    << "PROJECT_ROOT/model/saved_models/best_model.pth",
       "BASE_DIR/model_files/saved_models/best_model.pth",
       "/app/model_files/saved_models/best_model.pth",
       "BASE_DIR/saved_models/best_model.pth" >>

POSSIBLE_CLASS_PATHS ==
    << "PROJECT_ROOT/model/saved_models/class_indices.json",
       "BASE_DIR/model_files/saved_models/class_indices.json",
       "/app/model_files/saved_models/class_indices.json",
       "BASE_DIR/saved_models/class_indices.json" >>

\* the value None of a path variable
NoPath == "None"

AllPaths ==
    {POSSIBLE_MODEL_PATHS[i] : i \in 1..Len(POSSIBLE_MODEL_PATHS)} \cup
    {POSSIBLE_CLASS_PATHS[i] : i \in 1..Len(POSSIBLE_CLASS_PATHS)}

\* os.path.exists(path) on the filesystem fs (the set of paths that exist)
PathExists(fs, path) == path \in fs

\* a search loop without its break: the last existing candidate wins
LastExisting(paths, fs) ==
    LET hits == {i \in 1..Len(paths) : PathExists(fs, paths[i])}
    IN  IF hits = {} THEN NoPath ELSE paths[CHOOSE i \in hits : \A j \in hits : j <= i]

\* for path in paths: if os.path.exists(path): found = path; break
\* (found starts as None)
RECURSIVE FirstExisting(_, _)
FirstExisting(paths, fs) ==
    IF Len(paths) = 0 THEN NoPath
    ELSE IF PathExists(fs, paths[1]) THEN paths[1]
    ELSE FirstExisting(Tail(paths), fs)

\* the search loop followed by the fallback to the first candidate
LocatePath(paths, fs) ==
    LET found == FirstExisting(paths, fs)
    IN  IF found = NoPath THEN paths[1] ELSE found

(* model_loader.py: the single-path variant *)
ROOT_MODEL_PATH == "BASE_DIR/saved_models/best_model.pth"
ROOT_CLASS_INDICES_PATH == "BASE_DIR/saved_models/class_indices.json"

-----------------------------------------------------------------------------
(* load_model_and_classes: the class-index resolver *)

\* next(iter(class_indices), ""): no IndexError on an empty dict
FirstKeyOrDefault(class_indices) ==
    [raised |-> FALSE,
     key |-> IF Len(class_indices) = 0 THEN <<>> ELSE class_indices[1].k]

\* list(class_indices.keys())[0]; IndexError on an empty dict
FirstKey(class_indices) ==
    IF Len(class_indices) = 0
    THEN [raised |-> TRUE, key |-> <<>>]
    ELSE [raised |-> FALSE, key |-> class_indices[1].k]

\* {int(k): v for k, v in class_indices.items()}; the first int() that fails
\* raises ValueError
RECURSIVE IntKeyed(_)
IntKeyed(items) ==
    IF Len(items) = 0 THEN [raised |-> FALSE, dict |-> <<>>]
    ELSE LET last == items[Len(items)]
             rest == IntKeyed(SubSeq(items, 1, Len(items) - 1))
             key  == IntOfStr(last.k)
         IN  IF rest.raised \/ key.raised
             THEN [raised |-> TRUE, dict |-> <<>>]
             ELSE [raised |-> FALSE, dict |-> DictSet(rest.dict, IntV(key.n), last.v)]

\* {k: v for k, v in class_indices.items()}: the label-keyed file left as it is
NotInverted(items) ==
    [i \in 1..Len(items) |-> [k |-> StrV(items[i].k), v |-> items[i].v]]

\* {v: k for k, v in class_indices.items()}
RECURSIVE Inverted(_)
Inverted(items) ==
    IF Len(items) = 0 THEN <<>>
    ELSE LET last == items[Len(items)]
         IN  DictSet(Inverted(SubSeq(items, 1, Len(items) - 1)), last.v, StrV(last.k))

\* the two encodings, told apart by the first key (a non-empty class_indices)
ResolveClassIndices(class_indices) ==
    IF IsDigit(FirstKey(class_indices).key)
    THEN IntKeyed(class_indices)
    ELSE [raised |-> FALSE, dict |-> Inverted(class_indices)]

\* load_state_dict(..., strict=False)-like: any readable weights are accepted
AnyWeightsFit(weights_head, num_classes) == weights_head # 0

\* load_state_dict accepts the weights iff the head stored in them has as many
\* rows as the freshly built fc layer; a corrupt file (head 0) never loads
WeightsFit(weights_head, num_classes) ==
    weights_head # 0 /\ weights_head = num_classes

NoError == [type |-> "none", about |-> "none", tried |-> <<>>]
NoModel == [built |-> FALSE, head |-> 0, weights_read |-> FALSE, loaded |-> FALSE,
            eval |-> FALSE, num_batches_tracked |-> 0]

\* a raise out of load_model_and_classes; the locals are as they were then:
\* built tells whether the network had been constructed (which the code does
\* right after the class indices are resolved into dict), read whether
\* torch.load had read the weights file
LoadRaise(type, about, tried, dict, built, read) ==
    [ state |-> "raised", error |-> [type |-> type, about |-> about, tried |-> tried],
      idx_to_class |-> dict, num_classes |-> Len(dict), resolved |-> built,
      model |-> [built |-> built, head |-> Len(dict), weights_read |-> read,
                 loaded |-> FALSE, eval |-> FALSE, num_batches_tracked |-> 0] ]

\* everything from num_classes = len(idx_to_class) on: the network is built
\* with a head of num_classes outputs, torch.load reads the weights file,
\* load_state_dict puts the weights in, the model goes to evaluation mode
BuildAndLoad(dict, weights_present, weights_head, path) ==
    IF ~weights_present
    THEN LoadRaise("FileNotFoundError", "weights", <<path>>, dict, TRUE, FALSE)
    ELSE IF ~WeightsFit(weights_head, Len(dict))
    THEN LoadRaise("RuntimeError", "weights", <<path>>, dict, TRUE, TRUE)
    ELSE [ state |-> "returned", error |-> NoError,
           idx_to_class |-> dict, num_classes |-> Len(dict), resolved |-> TRUE,
           model |-> [built |-> TRUE, head |-> Len(dict), weights_read |-> TRUE,
                      loaded |-> TRUE, eval |-> TRUE, num_batches_tracked |-> 0] ]

\* backend/model_loader.py load_model_and_classes, on the filesystem fs, with
\* class_json the parse of the class-index file (valid: it is JSON; items: the
\* object's members in file order) and weights_head the head width stored in
\* the weights file (0: not loadable)
load_model_and_classes(fs, class_path, model_path, class_json, weights_head) ==
    IF ~PathExists(fs, class_path)
    THEN LoadRaise("FileNotFoundError", "class_indices", POSSIBLE_CLASS_PATHS, <<>>, FALSE, FALSE)
    ELSE IF ~PathExists(fs, model_path)
    THEN LoadRaise("FileNotFoundError", "weights", POSSIBLE_MODEL_PATHS, <<>>, FALSE, FALSE)
    ELSE IF ~class_json.valid
    THEN LoadRaise("JSONDecodeError", "class_indices", <<class_path>>, <<>>, FALSE, FALSE)
    ELSE IF Len(class_json.items) = 0
    THEN LoadRaise("ValueError", "class_indices", <<class_path>>, <<>>, FALSE, FALSE)
    ELSE LET r == ResolveClassIndices(class_json.items)
         IN  IF r.raised
             THEN LoadRaise("ValueError", "class_indices", <<>>, <<>>, FALSE, FALSE)
             ELSE BuildAndLoad(r.dict, TRUE, weights_head, model_path)

\* model_loader.py load_model_and_classes: no existence checks, no empty check,
\* no try/except
load_model_and_classes_root(fs, class_path, model_path, class_json, weights_head) ==
    IF ~PathExists(fs, class_path)
    THEN LoadRaise("FileNotFoundError", "class_indices", <<class_path>>, <<>>, FALSE, FALSE)
    ELSE IF ~class_json.valid
    THEN LoadRaise("JSONDecodeError", "class_indices", <<class_path>>, <<>>, FALSE, FALSE)
    ELSE IF FirstKey(class_json.items).raised
    THEN LoadRaise("IndexError", "class_indices", <<>>, <<>>, FALSE, FALSE)
    ELSE LET r == ResolveClassIndices(class_json.items)
         IN  IF r.raised
             THEN LoadRaise("ValueError", "class_indices", <<>>, <<>>, FALSE, FALSE)
             ELSE BuildAndLoad(r.dict, PathExists(fs, model_path), weights_head, model_path)

-----------------------------------------------------------------------------
(* predict_image *)

\* idx_to_class.get(predicted_idx, <first label>): a missing index is not reported
LookupLabelOrFirst(idx_to_class, predicted_idx) ==
    [raised |-> FALSE, type |-> "none",
     label |-> IF DictHas(idx_to_class, IntV(predicted_idx))
               THEN DictGet(idx_to_class, IntV(predicted_idx))
               ELSE idx_to_class[1].v]

\* the lookup that ends backend/model_loader.py predict_image: ValueError when
\* the predicted index is no key of idx_to_class
LookupLabel(idx_to_class, predicted_idx) ==
    IF ~DictHas(idx_to_class, IntV(predicted_idx))
    THEN [raised |-> TRUE, type |-> "ValueError", label |-> StrV(<<>>)]
    ELSE [raised |-> FALSE, type |-> "none",
          label |-> DictGet(idx_to_class, IntV(predicted_idx))]

\* the lookup that ends model_loader.py predict_image: the subscript raises
\* KeyError
LookupLabelRoot(idx_to_class, predicted_idx) ==
    IF ~DictHas(idx_to_class, IntV(predicted_idx))
    THEN [raised |-> TRUE, type |-> "KeyError", label |-> StrV(<<>>)]
    ELSE [raised |-> FALSE, type |-> "none",
          label |-> DictGet(idx_to_class, IntV(predicted_idx))]

\* backend/model_loader.py predict_image: transform, forward pass, arg-max,
\* lookup (the label of the returned pair)
predict_image(idx_to_class, transform_ok, forward_ok, predicted_idx) ==
    IF ~transform_ok
    THEN [raised |-> TRUE, type |-> "ValueError", label |-> StrV(<<>>)]
    ELSE IF ~forward_ok
    THEN [raised |-> TRUE, type |-> "RuntimeError", label |-> StrV(<<>>)]
    ELSE LookupLabel(idx_to_class, predicted_idx)

\* model_loader.py predict_image: the same steps with nothing caught
predict_image_root(idx_to_class, transform_ok, forward_ok, predicted_idx) ==
    IF ~transform_ok \/ ~forward_ok
    THEN [raised |-> TRUE, type |-> "Exception", label |-> StrV(<<>>)]
    ELSE LookupLabelRoot(idx_to_class, predicted_idx)

-----------------------------------------------------------------------------
(* backend/app.py and backend/server.py: the label parser *)

\* s.rsplit("___", 1): the split at the last occurrence
SplitLast(s) ==
    LET hits == {i \in 0..(Len(s) - Len(SEP)) : SubSeq(s, i + 1, i + Len(SEP)) = SEP}
        at   == CHOOSE i \in hits : \A j \in hits : j <= i
    IN  <<SubSeq(s, 1, at), SubSeq(s, at + Len(SEP) + 1, Len(s))>>

\* s.split("___", 1) for an s that contains the separator
SplitOnce(s) ==
    LET at == Find(s, SEP)
    IN  <<SubSeq(s, 1, at), SubSeq(s, at + Len(SEP) + 1, Len(s))>>

\* app.py: crop_name, disease_name from predicted_class
ParseLabelApp(predicted_class) ==
    IF Contains(SEP, predicted_class)
    THEN SplitOnce(predicted_class)
    ELSE <<predicted_class, <<" ">>>>

\* server.py: crop_name, disease_name from prediction
ParseLabelServer(prediction) ==
    IF Contains(SEP, prediction)
    THEN SplitOnce(prediction)
    ELSE <<prediction, <<"U", "n", "k", "n", "o", "w", "n">>>>

\* app.py: "handler_disease if handler_disease else 'Healthy'"
DisplayDisease(disease_name) ==
    IF Len(disease_name) > 0 THEN disease_name ELSE <<"H", "e", "a", "l", "t", "h", "y">>

\* server.py: recommendation.get(field, default) on
\* recommendation = RECOMMENDATIONS.get(prediction, {})
ServerField(prediction, field, default) ==
    IF TableGet(prediction) # 0
    THEN RECOMMENDATIONS[TableGet(prediction)].rec[field]
    ELSE <<default>>

-----------------------------------------------------------------------------
(* The forward pass and the confidence score *)

\* a forward pass that updates the batch-norm statistics whatever the mode
ForwardPassTraining(model) ==
    [model EXCEPT !.num_batches_tracked = @ + 1]

\* model(image) at line 126: in evaluation mode the network is only read; in
\* training mode its batch-norm layers would update their running statistics
ForwardPass(model) ==
    IF model.eval THEN model ELSE [model EXCEPT !.num_batches_tracked = @ + 1]

\* 2^n
RECURSIVE Pow2(_)
Pow2(n) == IF n = 0 THEN 1 ELSE 2 * Pow2(n - 1)

\* the sum of 2^logits[i] over i in 1..n
RECURSIVE SumPow2(_, _)
SumPow2(logits, n) == IF n = 0 THEN 0 ELSE Pow2(logits[n]) + SumPow2(logits, n - 1)

\* the exponentials left unnormalized
SoftmaxUnnormalized(logits) ==
    [i \in 1..Len(logits) |-> [num |-> Pow2(logits[i]), den |-> 1]]

\* torch.softmax(outputs, dim=1) for output scores counted in units of ln 2:
\* probability i is the fraction 2^logits[i] / sum_j 2^logits[j]
Softmax(logits) ==
    [i \in 1..Len(logits) |->
        [num |-> Pow2(logits[i]), den |-> SumPow2(logits, Len(logits))]]

\* torch.max(probs, 1): the largest probability and the index (from 0) of its
\* first occurrence
TorchMax(probs) ==
    LET at == CHOOSE i \in 1..Len(probs) :
                  /\ \A j \in 1..Len(probs) : probs[j].num <= probs[i].num
                  /\ \A j \in 1..(i - 1) : probs[j].num < probs[i].num
    IN  [confidence |-> probs[at], predicted_idx |-> at - 1]

\* the confidence as a percentage with two decimals
RoundPercent(x) ==
    [num |-> (x.num * 1000000) \div x.den, den |-> 10000]

\* round(confidence, 4): the nearest multiple of 1/10000, ties to the even one
Round4(x) ==
    LET q == (x.num * 10000) \div x.den
        r == (x.num * 10000) % x.den
    IN  [num |-> IF 2 * r < x.den THEN q
                 ELSE IF 2 * r > x.den THEN q + 1
                 ELSE IF q % 2 = 0 THEN q ELSE q + 1,
         den |-> 10000]

-----------------------------------------------------------------------------
(* The /predict handlers of backend/app.py and backend/server.py *)

\* app.py line 37: the content types predict accepts
ALLOWED_CONTENT_TYPES ==
    { <<"i", "m", "a", "g", "e", "/", "j", "p", "e", "g">>,
      <<"i", "m", "a", "g", "e", "/", "j", "p", "g">>,
      <<"i", "m", "a", "g", "e", "/", "p", "n", "g">>,
      <<"i", "m", "a", "g", "e", "/", "b", "m", "p">> }

\* every HTTPException turned into a 500
HttpErrorAlways500(status_code, detail) == [http_status |-> 500, detail |-> detail]

\* raise HTTPException(status_code, detail)
HttpError(status_code, detail) == [http_status |-> status_code, detail |-> detail]

\* no response yet: the handler goes on
NoResponse == [http_status |-> 0, detail |-> "none"]

\* an upload without image data
NoImage(kind) == [kind |-> kind, mode |-> "none", forward_ok |-> FALSE, logits |-> <<>>]

\* app.py lines 34-41, up to "await file.read()": an UploadFile object is
\* always truthy, a content type outside the list is refused
AppBeforeRead(upload) ==
    IF Truthy(upload.content_type)
       /\ upload.content_type.s \notin ALLOWED_CONTENT_TYPES
    THEN HttpError(400, "Invalid file type")
    ELSE NoResponse

\* app.py lines 43-93, from the bytes read to the response: with g the
\* module's globals (model, idx_to_class)
AppAfterRead(g, upload) ==
    LET best   == TorchMax(Softmax(upload.body.logits))
        p      == predict_image(g.idx_to_class, TRUE, upload.body.forward_ok,
                                best.predicted_idx)
        parsed == ParseLabelApp(p.label.s)
        r      == get_recommendation(PyStr(parsed[1]), PyStr(parsed[2]))
    IN  IF upload.body.kind = "empty"
        THEN HttpError(400, "Uploaded file is empty")
        ELSE IF upload.body.kind = "garbage"
        THEN HttpError(400, "Failed to process image file")
        ELSE IF p.raised
        THEN HttpError(500, "Error during prediction")
        ELSE IF p.label.t # "str"
        THEN HttpError(500, "Unexpected error")
        ELSE [ http_status |-> 200,
               predicted_class |-> p.label.s,
               confidence |-> Round4(best.confidence),
               crop_name |-> parsed[1],
               disease_name |-> DisplayDisease(parsed[2]),
               recommendation |-> r.rec ]

\* server.py health_check: 503 while model is None
health_check(g) ==
    IF ~g.bound
    THEN [http_status |-> 503, status |-> "unhealthy", error |-> "Model not loaded"]
    ELSE [http_status |-> 200, status |-> "healthy", model_loaded |-> g.bound]

\* a predict_endpoint that looks at the content type before the model
ServerBeforeReadTypeFirst(g, upload) ==
    IF \/ ~Truthy(upload.content_type)
       \/ ~StartsWith(upload.content_type.s, <<"i", "m", "a", "g", "e", "/">>)
    THEN HttpError(400, "File must be an image")
    ELSE IF ~g.bound
    THEN HttpError(503, "Model not loaded")
    ELSE NoResponse

\* server.py lines 58-62, up to "await file.read()"
ServerBeforeRead(g, upload) ==
    IF ~g.bound
    THEN HttpError(503, "Model not loaded")
    ELSE IF \/ ~Truthy(upload.content_type)
            \/ ~StartsWith(upload.content_type.s, <<"i", "m", "a", "g", "e", "/">>)
    THEN HttpError(400, "File must be an image")
    ELSE NoResponse

\* server.py lines 64-101: the image is not converted to RGB, so the transform
\* of predict_image fails on any other mode; every exception becomes a 500
ServerAfterRead(g, upload) ==
    LET best   == TorchMax(Softmax(upload.body.logits))
        p      == predict_image(g.idx_to_class, upload.body.mode = "RGB",
                                upload.body.forward_ok, best.predicted_idx)
        parsed == ParseLabelServer(p.label.s)
    IN  IF upload.body.kind # "image" \/ p.raised \/ p.label.t # "str"
        THEN HttpError(500, "Prediction failed")
        ELSE [ http_status |-> 200,
               predicted_class |-> p.label.s,
               crop_name |-> parsed[1],
               disease_name |-> parsed[2],
               confidence |-> best.confidence,
               status |-> "success",
               description |->
                   ServerField(p.label.s, "disease_description", "No description available"),
               symptoms |->
                   ServerField(p.label.s, "symptoms", "No symptoms information available"),
               organic |->
                   ServerField(p.label.s, "treatment_organic", "No organic treatment available"),
               chemical |->
                   ServerField(p.label.s, "treatment_chemical", "No chemical treatment available"),
               preventive |->
                   ServerField(p.label.s, "preventive_measures", "No preventive measures available") ]

\* whether the handler gets as far as its call of predict_image: in app.py
\* after the empty test and Image.open(...).convert("RGB"), in server.py after
\* Image.open(...)
CallsPredictImage(upload) == upload.body.kind = "image"

\* a handler that unbinds the module's globals when the prediction fails
GlobalsDroppedOnFailure(g, upload, transform_ok) ==
    IF upload.body.kind = "image" /\ transform_ok /\ upload.body.forward_ok
    THEN g
    ELSE [bound |-> FALSE, model |-> g.model, idx_to_class |-> <<>>]

\* the module's globals once predict_image has run on the upload: neither
\* handler assigns them, the forward pass is the only use of the model
GlobalsAfterPredict(g, upload, transform_ok) ==
    IF upload.body.kind = "image" /\ transform_ok
    THEN [g EXCEPT !.model = ForwardPass(@)]
    ELSE g

-----------------------------------------------------------------------------

(* The model locator as a state machine: the import of backend/model_loader.py *)

LocatorIdle ==
    /\ MODEL_PATH = NoPath
    /\ CLASS_INDICES_PATH = NoPath
    /\ locState = "importing"

LoaderIdle ==
    /\ loaderModule = "backend"
    /\ class_file = [valid |-> TRUE, items |-> <<>>]
    /\ weights_file = 0
    /\ load = [state |-> "idle", error |-> NoError, idx_to_class |-> <<>>,
               num_classes |-> 0, resolved |-> FALSE, model |-> NoModel]

PredictIdle ==
    /\ predState = "idle"
    /\ predError = "none"
    /\ argmax_idx = -1
    /\ predicted_label = StrV(<<>>)

RespondIdle ==
    /\ respState = "idle"
    /\ handler = "none"
    /\ handler_crop = <<>>
    /\ handler_disease = <<>>
    /\ response = <<>>

ResolveIdle ==
    /\ bijection = <<>>
    /\ digit_keyed = <<>>
    /\ label_keyed = <<>>
    /\ digit_map = [state |-> "idle", dict |-> <<>>]
    /\ label_map = [state |-> "idle", dict |-> <<>>]

RecIdle ==
    /\ recState = "idle"
    /\ recBranch = "none"
    /\ recEngine = "none"
    /\ recommendation = <<>>

\* a module's globals before they are bound (None, None)
NoGlobals == [bound |-> FALSE, model |-> NoModel, idx_to_class |-> <<>>]

ServeIdle ==
    /\ entry_point = "none"
    /\ process = "importing"
    /\ app_globals = NoGlobals
    /\ server_globals = NoGlobals
    /\ rule_base = RECOMMENDATIONS
    /\ diagnostic = NoError
    /\ load_calls = 0
    /\ requests = <<>>

\* no trainer has been constructed and nothing is at the save path
NoArtifacts == [written |-> FALSE, weights |-> 0, class_indices |-> <<>>]

TrainIdle ==
    /\ config = [NUM_CLASSES |-> 0, num_epochs |-> 0]
    /\ train_classes = 0
    /\ trainer = [pc |-> "none", fc_out |-> 0, class_indices |-> <<>>, best_val_acc |-> 0,
                  epoch |-> 0, val_accs |-> <<>>, saved_in |-> {}]
    /\ saved_models = NoArtifacts

LogIdle ==
    /\ logs_dir = <<>>
    /\ log_calls = <<>>

\* any subset of the candidate files may exist when the module is imported
LocatorInit ==
    /\ TrainIdle
    /\ LogIdle
    /\ files \in SUBSET AllPaths
    /\ LocatorIdle
    /\ LoaderIdle
    /\ PredictIdle
    /\ RespondIdle
    /\ ResolveIdle
    /\ ServeIdle
    /\ crop_arg = PyNone
    /\ disease_arg = PyNone
    /\ RecIdle

\* lines 26-43 of backend/model_loader.py: both search loops and both fallbacks
ImportModelLoader ==
    /\ locState = "importing"
    /\ MODEL_PATH' = LocatePath(POSSIBLE_MODEL_PATHS, files)
    /\ CLASS_INDICES_PATH' = LocatePath(POSSIBLE_CLASS_PATHS, files)
    /\ locState' = "imported"
    /\ UNCHANGED <<trainVars, logVars, files, serveVars, loadVars, predVars, respVars, recVars, resolveVars>>

LocatorNext == ImportModelLoader

SpecLocator == LocatorInit /\ [][LocatorNext]_vars

-----------------------------------------------------------------------------
(* Startup and inference: load_model_and_classes, then predict_image *)

\* keys and values a class-index file is built from
JsonKeys == { <<"0">>, <<"1">>, <<"2">>, <<"0", "1">>, <<"A">>, <<"B">> }
JsonValues == { IntV(0), IntV(1), StrV(<<"A">>), StrV(<<"B">>) }

\* the JSON objects of at most MaxEntries members (member names are distinct)
JsonObjects ==
    UNION { { items \in [1..n -> [k : JsonKeys, v : JsonValues]] :
                \A i, j \in 1..n : i # j => items[i].k # items[j].k }
            : n \in 0..MaxEntries }

ClassFiles ==
    { [valid |-> FALSE, items |-> <<>>] } \cup
    { [valid |-> TRUE, items |-> items] : items \in JsonObjects }

\* which of the model files exist: none, those of the first candidate
\* directory, those of the last one
Filesystems ==
    { ms \cup cs :
        ms \in { {}, {POSSIBLE_MODEL_PATHS[1]}, {POSSIBLE_MODEL_PATHS[4]} },
        cs \in { {}, {POSSIBLE_CLASS_PATHS[1]}, {POSSIBLE_CLASS_PATHS[4]} } }

\* the process has imported its loader module and is about to call
\* load_model_and_classes; files that do not exist have no content
LoadInit ==
    /\ TrainIdle
    /\ LogIdle
    /\ files \in Filesystems
    /\ loaderModule \in {"backend", "root"}
    /\ locState = "imported"
    /\ MODEL_PATH = IF loaderModule = "backend"
                    THEN LocatePath(POSSIBLE_MODEL_PATHS, files)
                    ELSE ROOT_MODEL_PATH
    /\ CLASS_INDICES_PATH = IF loaderModule = "backend"
                            THEN LocatePath(POSSIBLE_CLASS_PATHS, files)
                            ELSE ROOT_CLASS_INDICES_PATH
    /\ class_file \in IF PathExists(files, CLASS_INDICES_PATH)
                      THEN ClassFiles
                      ELSE { [valid |-> TRUE, items |-> <<>>] }
    /\ weights_file \in IF PathExists(files, MODEL_PATH) THEN 0..MaxHead ELSE {0}
    /\ load = [state |-> "idle", error |-> NoError, idx_to_class |-> <<>>,
               num_classes |-> 0, resolved |-> FALSE, model |-> NoModel]
    /\ PredictIdle
    /\ RespondIdle
    /\ ResolveIdle
    /\ ServeIdle
    /\ crop_arg = PyNone
    /\ disease_arg = PyNone
    /\ RecIdle

\* backend/app.py line 25 with backend/model_loader.py
LoadBackend ==
    /\ loaderModule = "backend"
    /\ load.state = "idle"
    /\ load' = load_model_and_classes(files, CLASS_INDICES_PATH, MODEL_PATH,
                                      class_file, weights_file)
    /\ UNCHANGED <<trainVars, logVars, files, serveVars, locVars, loaderModule, class_file, weights_file,
                   predVars, respVars, recVars, resolveVars>>

\* the same call with model_loader.py
LoadRoot ==
    /\ loaderModule = "root"
    /\ load.state = "idle"
    /\ load' = load_model_and_classes_root(files, CLASS_INDICES_PATH, MODEL_PATH,
                                           class_file, weights_file)
    /\ UNCHANGED <<trainVars, logVars, files, serveVars, locVars, loaderModule, class_file, weights_file,
                   predVars, respVars, recVars, resolveVars>>

\* one call predict_image(model, idx_to_class, image) on the loaded pair: the
\* image may or may not transform, the forward pass may or may not run, and
\* the arg-max is one of the model's head outputs
PredictImage ==
    /\ load.state = "returned"
    /\ predState = "idle"
    /\ \E transform_ok, forward_ok \in BOOLEAN, idx \in 0..(load.model.head - 1) :
          LET r == IF loaderModule = "backend"
                   THEN predict_image(load.idx_to_class, transform_ok, forward_ok, idx)
                   ELSE predict_image_root(load.idx_to_class, transform_ok, forward_ok, idx)
          IN  /\ predState' = IF r.raised THEN "raised" ELSE "returned"
              /\ predError' = r.type
              /\ argmax_idx' = IF transform_ok /\ forward_ok THEN idx ELSE -1
              /\ predicted_label' = r.label
    /\ UNCHANGED <<trainVars, logVars, files, serveVars, locVars, loadVars, respVars, recVars, resolveVars>>

LoadNext == LoadBackend \/ LoadRoot \/ PredictImage

SpecLoad == LoadInit /\ [][LoadNext]_vars

-----------------------------------------------------------------------------
(* The two encodings of one label bijection, each put through the resolver *)

\* str(n) for n >= 0
RECURSIVE IntToStr(_)
IntToStr(n) ==
    IF n < 10 THEN <<Digits[n + 1]>>
    ELSE IntToStr(n \div 10) \o <<Digits[(n % 10) + 1]>>

ResolveLabels ==
    { <<"A">>, <<"B">>, <<"7">>, <<"0">>, <<"a", "_", "_", "_", "b">> }

Orders(n) == {p \in [1..n -> 1..n] : \A i, j \in 1..n : i # j => p[i] # p[j]}

\* {"<i>": label} with the members in the order p
DigitKeyedFile(labels, p) ==
    [j \in 1..Len(labels) |-> [k |-> IntToStr(p[j] - 1), v |-> StrV(labels[p[j]])]]

\* {label: i} with the members in the order p
LabelKeyedFile(labels, p) ==
    [j \in 1..Len(labels) |-> [k |-> labels[p[j]], v |-> IntV(p[j] - 1)]]

Unresolved == [state |-> "idle", dict |-> <<>>]

\* labels[i] is the label of index i-1; the two files list their members in
\* any order
ResolveInit ==
    /\ TrainIdle
    /\ LogIdle
    /\ \E n \in 1..MaxEntries :
          /\ bijection \in {l \in [1..n -> ResolveLabels] :
                               \A i, j \in 1..n : i # j => l[i] # l[j]}
          /\ \E p, q \in Orders(n) :
                /\ digit_keyed = DigitKeyedFile(bijection, p)
                /\ label_keyed = LabelKeyedFile(bijection, q)
    /\ digit_map = Unresolved
    /\ label_map = Unresolved
    /\ files = {}
    /\ LocatorIdle
    /\ LoaderIdle
    /\ PredictIdle
    /\ RespondIdle
    /\ crop_arg = PyNone
    /\ disease_arg = PyNone
    /\ RecIdle
    /\ ServeIdle

Resolved(items) ==
    LET r == ResolveClassIndices(items)
    IN  [state |-> IF r.raised THEN "raised" ELSE "resolved", dict |-> r.dict]

ResolveDigitKeyed ==
    /\ digit_map.state = "idle"
    /\ digit_map' = Resolved(digit_keyed)
    /\ UNCHANGED <<trainVars, logVars, bijection, digit_keyed, label_keyed, label_map, files, serveVars, locVars,
                   loadVars, predVars, respVars, recVars>>

ResolveLabelKeyed ==
    /\ label_map.state = "idle"
    /\ label_map' = Resolved(label_keyed)
    /\ UNCHANGED <<trainVars, logVars, bijection, digit_keyed, label_keyed, digit_map, files, serveVars, locVars,
                   loadVars, predVars, respVars, recVars>>

ResolveNext == ResolveDigitKeyed \/ ResolveLabelKeyed

SpecResolve == ResolveInit /\ [][ResolveNext]_vars

-----------------------------------------------------------------------------
(* The tail of the /predict handlers: label parser, advisory, response *)

LabelAlphabet == {"_", "a"}

ShortLabels == UNION {[1..n -> LabelAlphabet] : n \in 0..MaxLabelLen}

NamedLabels ==
    { RECOMMENDATIONS[i].key : i \in 1..Len(RECOMMENDATIONS) } \cup
    { <<"T", "o", "m", "a", "t", "o", "_", "_", "_", "h", "e", "a", "l", "t", "h", "y">>,
      <<"B", "a", "c", "k", "g", "r", "o", "u", "n", "d", "_", "w", "i", "t", "h", "o",
        "u", "t", "_", "l", "e", "a", "v", "e", "s">>,
      <<"T", "o", "m", "a", "t", "o", "_", "_", "_", "L", "e", "a", "f", "_", "_", "_",
        "M", "o", "l", "d">> }

\* predict_image has just returned predicted_label to a /predict handler
RespondInit ==
    /\ TrainIdle
    /\ LogIdle
    /\ predState = "returned"
    /\ predError = "none"
    /\ argmax_idx = 0
    /\ predicted_label \in {StrV(s) : s \in ShortLabels \cup NamedLabels} \cup {IntV(0)}
    /\ RespondIdle
    /\ files = {}
    /\ LocatorIdle
    /\ LoaderIdle
    /\ ResolveIdle
    /\ ServeIdle
    /\ crop_arg = PyNone
    /\ disease_arg = PyNone
    /\ RecIdle

\* backend/app.py lines 68-93: a predicted_label that is not a str makes the
\* separator test raise, which the outer handler turns into a 500
AppRespond ==
    /\ predState = "returned"
    /\ respState = "idle"
    /\ handler' = "app"
    /\ IF predicted_label.t # "str"
       THEN /\ respState' = "raised"
            /\ response' = [http_status |-> 500]
            /\ UNCHANGED <<handler_crop, handler_disease, recVars>>
       ELSE LET parsed == ParseLabelApp(predicted_label.s)
                r      == get_recommendation(PyStr(parsed[1]), PyStr(parsed[2]))
            IN  /\ handler_crop' = parsed[1]
                /\ handler_disease' = parsed[2]
                /\ crop_arg' = PyStr(parsed[1])
                /\ disease_arg' = PyStr(parsed[2])
                /\ recState' = "returned"
                /\ recEngine' = "backend"
                /\ recBranch' = r.branch
                /\ recommendation' = r.rec
                /\ respState' = "responded"
                /\ response' = [ http_status |-> 200,
                                 predicted_class |-> predicted_label.s,
                                 crop_name |-> parsed[1],
                                 disease_name |-> DisplayDisease(parsed[2]),
                                 recommendation |-> r.rec ]
    /\ UNCHANGED <<trainVars, logVars, files, serveVars, locVars, loadVars, predVars, resolveVars>>

\* backend/server.py lines 72-101
ServerRespond ==
    /\ predState = "returned"
    /\ respState = "idle"
    /\ handler' = "server"
    /\ IF predicted_label.t # "str"
       THEN /\ respState' = "raised"
            /\ response' = [http_status |-> 500]
            /\ UNCHANGED <<handler_crop, handler_disease>>
       ELSE LET prediction == predicted_label.s
                parsed     == ParseLabelServer(prediction)
            IN  /\ handler_crop' = parsed[1]
                /\ handler_disease' = parsed[2]
                /\ respState' = "responded"
                /\ response' =
                      [ http_status |-> 200,
                        predicted_class |-> prediction,
                        crop_name |-> parsed[1],
                        disease_name |-> parsed[2],
                        status |-> "success",
                        description |-> ServerField(prediction, "disease_description",
                                                    "No description available"),
                        symptoms |-> ServerField(prediction, "symptoms",
                                                 "No symptoms information available"),
                        organic |-> ServerField(prediction, "treatment_organic",
                                                "No organic treatment available"),
                        chemical |-> ServerField(prediction, "treatment_chemical",
                                                 "No chemical treatment available"),
                        preventive |-> ServerField(prediction, "preventive_measures",
                                                   "No preventive measures available") ]
    /\ UNCHANGED <<trainVars, logVars, files, serveVars, locVars, loadVars, predVars, resolveVars, recVars>>

RespondNext == AppRespond \/ ServerRespond

SpecRespond == RespondInit /\ [][RespondNext]_vars

-----------------------------------------------------------------------------
(* get_recommendation called on its own *)

ArgAlphabet == {" ", "_", "a", "T"}

\* every string over ArgAlphabet of length at most MaxArgLen
ShortArgs == UNION {[1..n -> ArgAlphabet] : n \in 0..MaxArgLen}

CropArgs ==
    { <<"A", "p", "p", "l", "e">>,
      <<"P", "o", "t", "a", "t", "o">>,
      <<"P", "o", "t", "a", "t", "o", "_", "_">>,
      <<"T", "o", "m", "a", "t", "o">>,
      <<"C", "o", "r", "n", "_", "(", "m", "a", "i", "z", "e", ")">>,
      <<" ", "p", "o", "t", "a", "t", "o", " ">>,
      <<"U", "n", "k", "n", "o", "w", "n", "C", "r", "o", "p">> }

DiseaseArgs ==
    { <<"A", "p", "p", "l", "e", "_", "s", "c", "a", "b">>,
      <<"E", "a", "r", "l", "y", " ", "b", "l", "i", "g", "h", "t">>,
      <<"E", "a", "r", "l", "y", "_", "b", "l", "i", "g", "h", "t">>,
      <<"L", "a", "t", "e", "_", "b", "l", "i", "g", "h", "t">>,
      <<"L", "e", "a", "f", "_", "M", "o", "l", "d">>,
      <<"C", "o", "m", "m", "o", "n", "_", "r", "u", "s", "t", "_">>,
      <<"b", "l", "i", "g", "h", "t">>,
      <<"h", "e", "a", "l", "t", "h", "y">>,
      <<"H", "e", "a", "l", "t", "h", "y">>,
      <<" ", "H", "E", "A", "L", "T", "H", "Y", " ">>,
      <<"U", "n", "k", "n", "o", "w", "n", "D", "i", "s", "e", "a", "s", "e">> }

PyArgs(strings) == {PyNone} \cup {PyStr(s) : s \in strings}

\* a caller about to call get_recommendation(crop_arg, disease_arg)
RecInit ==
    /\ TrainIdle
    /\ LogIdle
    /\ crop_arg \in PyArgs(CropArgs \cup ShortArgs)
    /\ disease_arg \in PyArgs(DiseaseArgs \cup ShortArgs)
    /\ RecIdle
    /\ files = {}
    /\ LocatorIdle
    /\ LoaderIdle
    /\ PredictIdle
    /\ RespondIdle
    /\ ResolveIdle
    /\ ServeIdle

\* one call of get_recommendation, from entry to its return statement
GetRecommendation ==
    /\ recState = "idle"
    /\ LET r == get_recommendation(crop_arg, disease_arg)
       IN  /\ recEngine' = "backend"
           /\ recBranch' = r.branch
           /\ recommendation' = r.rec
    /\ recState' = "returned"
    /\ UNCHANGED <<trainVars, logVars, crop_arg, disease_arg, files, serveVars, locVars, loadVars, predVars,
                   respVars, resolveVars>>

\* one call of the get_recommendation of crop_disease/backend
GetRecommendationCropDisease ==
    /\ recState = "idle"
    /\ LET r == get_recommendation_crop_disease(crop_arg, disease_arg)
       IN  /\ recEngine' = "crop_disease"
           /\ recBranch' = r.branch
           /\ recommendation' = r.rec
    /\ recState' = "returned"
    /\ UNCHANGED <<trainVars, logVars, crop_arg, disease_arg, files, serveVars, locVars, loadVars, predVars,
                   respVars, resolveVars>>

RecNext == GetRecommendation \/ GetRecommendationCropDisease

SpecRec == RecInit /\ [][RecNext]_vars

-----------------------------------------------------------------------------
(* The serving process: concurrent /predict requests on the loaded model *)

\* how many requests are in flight at most
MaxRequests == 2

\* the largest output score of the network, in units of ln 2
MaxLogit == 1

\* class sub-directories of a training directory (besides the 38 of the dataset)
MaxClassDirs == 2

\* epochs of a training run
MaxEpochs == 3

\* levels of validation accuracy above 0.0
MaxAcc == 2

\* logging calls on one logs directory
MaxCalls == 3

\* class-index files of two classes, digit-keyed: labels with and without
\* separator, healthy, in and out of the table, a gap in the indices, a label
\* that is no string
ServeClassFiles ==
    { <<[k |-> <<"0">>, v |-> StrV(<<"T", "o", "m", "a", "t", "o", "_", "_", "_", "L", "a", "t", "e", "_", "b", "l", "i", "g", "h", "t">>)],
        [k |-> <<"1">>, v |-> StrV(<<"T", "o", "m", "a", "t", "o", "_", "_", "_", "h", "e", "a", "l", "t", "h", "y">>)]>>,
      <<[k |-> <<"0">>, v |-> StrV(<<"B", "a", "c", "k", "g", "r", "o", "u", "n", "d", "_", "w", "i", "t", "h", "o", "u", "t", "_", "l", "e", "a", "v", "e", "s">>)],
        [k |-> <<"1">>, v |-> StrV(<<"G", "r", "a", "p", "e", "_", "_", "_", "B", "l", "a", "c", "k", "_", "r", "o", "t">>)]>>,
      <<[k |-> <<"0">>, v |-> StrV(<<"P", "o", "t", "a", "t", "o", "_", "_", "_", "E", "a", "r", "l", "y", "_", "b", "l", "i", "g", "h", "t">>)],
        [k |-> <<"2">>, v |-> StrV(<<"A", "p", "p", "l", "e", "_", "_", "_", "A", "p", "p", "l", "e", "_", "s", "c", "a", "b">>)]>>,
      <<[k |-> <<"0">>, v |-> StrV(<<"T", "o", "m", "a", "t", "o", "_", "_", "_", "L", "e", "a", "f", "_", "_", "_", "M", "o", "l", "d">>)],
        [k |-> <<"1">>, v |-> StrV(<<"_", "_", "_">>)]>>,
      <<[k |-> <<"0">>, v |-> IntV(1)],
        [k |-> <<"1">>, v |-> StrV(<<"C", "o", "r", "n", "_", "(", "m", "a", "i", "z", "e", ")", "_", "_", "_", "C", "o", "m", "m", "o", "n", "_", "r", "u", "s", "t", "_">>)]>> }

\* the output scores a forward pass can give for a head of n outputs
Logits(n) == [1..n -> 0..MaxLogit]

\* the bodies uploaded: no byte, bytes that are no image, an RGB image for
\* which the forward pass fails, an RGBA image, and RGB images with every
\* vector of output scores
UploadBodies(n) ==
    { NoImage("empty"), NoImage("garbage"),
      [kind |-> "image", mode |-> "RGB", forward_ok |-> FALSE, logits |-> [i \in 1..n |-> 0]],
      [kind |-> "image", mode |-> "RGBA", forward_ok |-> TRUE, logits |-> [i \in 1..n |-> 0]] }
    \cup
    { [kind |-> "image", mode |-> "RGB", forward_ok |-> TRUE, logits |-> l] : l \in Logits(n) }

\* the content types sent: none, an accepted one, an image type outside the
\* list of app.py, a type that is no image
UploadTypes ==
    { PyNone,
      PyStr(<<"i", "m", "a", "g", "e", "/", "p", "n", "g">>),
      PyStr(<<"i", "m", "a", "g", "e", "/", "g", "i", "f">>),
      PyStr(<<"t", "e", "x", "t", "/", "p", "l", "a", "i", "n">>) }

\* the uploads: every body as image/png, and every content type with an empty
\* body and with one good image
Uploads(n) ==
    { [content_type |-> PyStr(<<"i", "m", "a", "g", "e", "/", "p", "n", "g">>), body |-> b] : b \in UploadBodies(n) }
    \cup
    { [content_type |-> c, body |-> b] :
        c \in UploadTypes,
        b \in { NoImage("empty"),
                [kind |-> "image", mode |-> "RGB", forward_ok |-> TRUE,
                 logits |-> [i \in 1..n |-> 0]] } }

\* a request that has not arrived
NewRequest == [pc |-> "new", upload |-> [content_type |-> PyNone, body |-> NoImage("empty")],
               inferred |-> FALSE, response |-> NoResponse]

\* the globals bound to the pair a load returned
BoundGlobals(loaded) ==
    [bound |-> TRUE, model |-> loaded.model, idx_to_class |-> loaded.idx_to_class]

\* the process is up: the class-index file and the weights were found in the
\* first candidate directory and loaded at startup (app.py line 25, and again
\* in startup_event of server.py); no request has arrived
ServeInit ==
    /\ TrainIdle
    /\ LogIdle
    /\ files = {POSSIBLE_MODEL_PATHS[1], POSSIBLE_CLASS_PATHS[1]}
    /\ MODEL_PATH = POSSIBLE_MODEL_PATHS[1]
    /\ CLASS_INDICES_PATH = POSSIBLE_CLASS_PATHS[1]
    /\ locState = "imported"
    /\ loaderModule = "backend"
    /\ \E items \in ServeClassFiles :
          class_file = [valid |-> TRUE, items |-> items]
    /\ weights_file = Len(class_file.items)
    /\ load = load_model_and_classes(files, CLASS_INDICES_PATH, MODEL_PATH,
                                     class_file, weights_file)
    /\ entry_point \in {"app", "server"}
    /\ process = "serving"
    /\ app_globals = BoundGlobals(load)
    /\ server_globals = IF entry_point = "server" THEN BoundGlobals(load) ELSE NoGlobals
    /\ rule_base = RECOMMENDATIONS
    /\ diagnostic = NoError
    /\ load_calls = IF entry_point = "server" THEN 2 ELSE 1
    /\ requests = [r \in 1..MaxRequests |-> NewRequest]
    /\ PredictIdle
    /\ RespondIdle
    /\ ResolveIdle
    /\ crop_arg = PyNone
    /\ disease_arg = PyNone
    /\ RecIdle

\* what a handler leaves of a request once it has run up to its await, with
\* resp the error raised before it (NoResponse when none was)
Awaiting(upload, resp) ==
    IF resp = NoResponse
    THEN [pc |-> "reading", upload |-> upload, inferred |-> FALSE,
          response |-> NoResponse]
    ELSE [pc |-> "done", upload |-> upload, inferred |-> FALSE, response |-> resp]

\* app.py predict, from the call to "await file.read()" (lines 32-43)
AppPredictBegin(r) ==
    /\ entry_point = "app"
    /\ process = "serving"
    /\ requests[r].pc = "new"
    /\ \E upload \in Uploads(load.model.head) :
          requests' = [requests EXCEPT ![r] = Awaiting(upload, AppBeforeRead(upload))]
    /\ UNCHANGED <<trainVars, logVars, files, locVars, loadVars, predVars, respVars, recVars, resolveVars,
                   entry_point, process, app_globals, server_globals, rule_base,
                   diagnostic, load_calls>>

\* app.py predict, from the bytes read to the response (lines 43-93)
AppPredictFinish(r) ==
    /\ entry_point = "app"
    /\ requests[r].pc = "reading"
    /\ requests' = [requests EXCEPT ![r] =
                       [pc |-> "done", upload |-> @.upload,
                        inferred |-> CallsPredictImage(@.upload),
                        response |-> AppAfterRead(app_globals, @.upload)]]
    /\ app_globals' = GlobalsAfterPredict(app_globals, requests[r].upload, TRUE)
    /\ UNCHANGED <<trainVars, logVars, files, locVars, loadVars, predVars, respVars, recVars, resolveVars,
                   entry_point, process, server_globals, rule_base,
                   diagnostic, load_calls>>

\* server.py predict_endpoint, from the call to "await file.read()" (lines 56-66)
ServerPredictBegin(r) ==
    /\ entry_point = "server"
    /\ process = "serving"
    /\ requests[r].pc = "new"
    /\ \E upload \in Uploads(load.model.head) :
          requests' = [requests EXCEPT ![r] =
                          Awaiting(upload, ServerBeforeRead(server_globals, upload))]
    /\ UNCHANGED <<trainVars, logVars, files, locVars, loadVars, predVars, respVars, recVars, resolveVars,
                   entry_point, process, app_globals, server_globals, rule_base,
                   diagnostic, load_calls>>

\* server.py predict_endpoint, from the bytes read to the response (lines 66-101)
ServerPredictFinish(r) ==
    /\ entry_point = "server"
    /\ requests[r].pc = "reading"
    /\ requests' = [requests EXCEPT ![r] =
                       [pc |-> "done", upload |-> @.upload,
                        inferred |-> CallsPredictImage(@.upload),
                        response |-> ServerAfterRead(server_globals, @.upload)]]
    /\ server_globals' = GlobalsAfterPredict(server_globals, requests[r].upload,
                                             requests[r].upload.body.mode = "RGB")
    /\ UNCHANGED <<trainVars, logVars, files, locVars, loadVars, predVars, respVars, recVars, resolveVars,
                   entry_point, process, app_globals, rule_base,
                   diagnostic, load_calls>>

ServeNext ==
    \E r \in 1..MaxRequests :
        \/ AppPredictBegin(r)
        \/ AppPredictFinish(r)
        \/ ServerPredictBegin(r)
        \/ ServerPredictFinish(r)

SpecServe == ServeInit /\ [][ServeNext]_vars

-----------------------------------------------------------------------------

(* The startup of the process: the import of app.py and the startup event *)

\* the class-index file at startup: not JSON, an empty object, two classes
StartupClassFiles ==
    { [valid |-> FALSE, items |-> <<>>],
      [valid |-> TRUE, items |-> <<>>],
      [valid |-> TRUE, items |-> << [k |-> <<"0">>, v |-> StrV(<<"A">>)],
                                    [k |-> <<"1">>, v |-> StrV(<<"B">>)] >>] }

\* the weights file at startup: corrupt, a head of one class, a head of two
StartupWeights == {0, 1, 2}

\* uvicorn is about to import the entry module; backend/model_loader.py has
\* been imported and has located its two files
StartupInit ==
    /\ TrainIdle
    /\ LogIdle
    /\ files \in Filesystems
    /\ locState = "imported"
    /\ MODEL_PATH = LocatePath(POSSIBLE_MODEL_PATHS, files)
    /\ CLASS_INDICES_PATH = LocatePath(POSSIBLE_CLASS_PATHS, files)
    /\ loaderModule = "backend"
    /\ class_file \in IF PathExists(files, CLASS_INDICES_PATH)
                      THEN StartupClassFiles
                      ELSE { [valid |-> TRUE, items |-> <<>>] }
    /\ weights_file \in IF PathExists(files, MODEL_PATH) THEN StartupWeights ELSE {0}
    /\ load = [state |-> "idle", error |-> NoError, idx_to_class |-> <<>>,
               num_classes |-> 0, resolved |-> FALSE, model |-> NoModel]
    /\ entry_point \in {"app", "server"}
    /\ process = "importing"
    /\ app_globals = NoGlobals
    /\ server_globals = NoGlobals
    /\ rule_base = RECOMMENDATIONS
    /\ diagnostic = NoError
    /\ load_calls = 0
    /\ requests = [r \in 1..MaxRequests |-> NewRequest]
    /\ PredictIdle
    /\ RespondIdle
    /\ ResolveIdle
    /\ crop_arg = PyNone
    /\ disease_arg = PyNone
    /\ RecIdle

\* app.py line 25, run when app.py is imported: by uvicorn when app.py is the
\* entry module, by "from app import ..." (server.py line 10) when server.py
\* is. An exception ends the import and with it the process; otherwise app.py
\* serves at once, and server.py goes on to its startup event
ImportApp ==
    /\ process = "importing"
    /\ load' = load_model_and_classes(files, CLASS_INDICES_PATH, MODEL_PATH,
                                      class_file, weights_file)
    /\ load_calls' = load_calls + 1
    /\ IF load'.state = "returned"
       THEN /\ app_globals' = BoundGlobals(load')
            /\ process' = IF entry_point = "app" THEN "serving" ELSE "starting"
            /\ UNCHANGED diagnostic
       ELSE /\ process' = "aborted"
            /\ diagnostic' = load'.error
            /\ UNCHANGED app_globals
    /\ UNCHANGED <<trainVars, logVars, files, locVars, loaderModule, class_file, weights_file, predVars,
                   respVars, recVars, resolveVars, entry_point, server_globals,
                   rule_base, requests>>

\* between the import and the startup event one of the model files is removed
FilesChange ==
    /\ process = "starting"
    /\ load_calls = 1
    /\ \E path \in files : files' = files \ {path}
    /\ UNCHANGED <<trainVars, logVars, locVars, loadVars, predVars, respVars, recVars, resolveVars,
                   serveVars>>

\* server.py startup_event (lines 28-38): the load is tried again; an
\* exception is printed and swallowed, and the application starts serving
ServerStartup ==
    /\ process = "starting"
    /\ load' = load_model_and_classes(files, CLASS_INDICES_PATH, MODEL_PATH,
                                      class_file, weights_file)
    /\ load_calls' = load_calls + 1
    /\ IF load'.state = "returned"
       THEN /\ server_globals' = BoundGlobals(load')
            /\ UNCHANGED diagnostic
       ELSE /\ diagnostic' = load'.error
            /\ UNCHANGED server_globals
    /\ process' = "serving"
    /\ UNCHANGED <<trainVars, logVars, files, locVars, loaderModule, class_file, weights_file, predVars,
                   respVars, recVars, resolveVars, entry_point, app_globals,
                   rule_base, requests>>

\* server.py health_check (lines 45-53), once the application serves
HealthCheck ==
    /\ entry_point = "server"
    /\ process = "serving"
    /\ handler' = "health"
    /\ respState' = "responded"
    /\ response' = health_check(server_globals)
    /\ UNCHANGED <<trainVars, logVars, files, locVars, loadVars, predVars, handler_crop, handler_disease,
                   recVars, resolveVars, serveVars>>

StartupNext ==
    \/ ImportApp
    \/ FilesChange
    \/ ServerStartup
    \/ HealthCheck
    \/ \E r \in 1..MaxRequests : ServerPredictBegin(r) \/ ServerPredictFinish(r)

SpecStartup == StartupInit /\ [][StartupNext]_vars

-----------------------------------------------------------------------------

(* model/config.py, model/dataset_loader.py, model/train_model.py: training *)

\* Config.__init__: the head width is a fixed attribute; the epoch count is
\* the hyperparameter the training loop runs over
Config(num_epochs) == [NUM_CLASSES |-> 38, num_epochs |-> num_epochs]

\* ModelTrainer._create_model: the width of the new final layer; NUM_CLASSES
\* of the config is preferred, then len(config.class_indices), then 38
create_model(cfg) ==
    IF "NUM_CLASSES" \in DOMAIN cfg
    THEN cfg.NUM_CLASSES
    ELSE IF "class_indices" \in DOMAIN cfg
         THEN Len(cfg.class_indices)
         ELSE 38

\* CropDiseaseDataset._load_data: the sorted class sub-directories, each
\* mapped to its position; entry i is the index of the i-th class name
load_data(n_dirs) == [i \in 1..n_dirs |-> i - 1]

\* ModelTrainer.save_model: the state dict and class_indices.json are
\* written side by side at the save path, replacing what was there
save_model(fc_out, class_indices) ==
    [written |-> TRUE, weights |-> fc_out, class_indices |-> class_indices]

\* main(): a Config and a training directory of a few class sub-directories
\* or of as many as the config names; no trainer yet
TrainInit ==
    /\ LocatorIdle
    /\ LoaderIdle
    /\ PredictIdle
    /\ RespondIdle
    /\ ResolveIdle
    /\ crop_arg = PyNone
    /\ disease_arg = PyNone
    /\ RecIdle
    /\ ServeIdle
    /\ LogIdle
    /\ files = {}
    /\ config \in {Config(e) : e \in 1..MaxEpochs}
    /\ train_classes \in (1..MaxClassDirs) \cup {Config(1).NUM_CLASSES}
    /\ trainer = [pc |-> "none", fc_out |-> 0, class_indices |-> <<>>, best_val_acc |-> 0,
                  epoch |-> 0, val_accs |-> <<>>, saved_in |-> {}]
    /\ saved_models = NoArtifacts

\* ModelTrainer.__init__: the model is created from the config alone
NewTrainer ==
    /\ trainer.pc = "none"
    /\ trainer' = [trainer EXCEPT !.pc = "constructed", !.fc_out = create_model(config)]
    /\ UNCHANGED <<config, train_classes, saved_models, logVars, files, locVars, loadVars,
                   predVars, respVars, recVars, resolveVars, serveVars>>

\* ModelTrainer.train up to the loop: the datasets are read, class_indices is
\* the training dataset's mapping and the best accuracy starts at 0.0
TrainBegin ==
    /\ trainer.pc = "constructed"
    /\ trainer' = [trainer EXCEPT !.pc = "training",
                                  !.class_indices = load_data(train_classes),
                                  !.best_val_acc = 0]
    /\ UNCHANGED <<config, train_classes, saved_models, logVars, files, locVars, loadVars,
                   predVars, respVars, recVars, resolveVars, serveVars>>

\* one pass of the epoch loop: train, validate, and save when the validation
\* accuracy is strictly above the best so far; the last pass ends train().
\* The accuracy 100 * correct / total is one of the levels 0..MaxAcc, level 0
\* being 0.0 percent
TrainEpoch ==
    /\ trainer.pc = "training"
    /\ trainer.epoch < config.num_epochs
    /\ \E val_acc \in 0..MaxAcc :
          LET epoch == trainer.epoch + 1
              better == val_acc > trainer.best_val_acc
          IN  /\ trainer' = [trainer EXCEPT
                    !.epoch = epoch,
                    !.val_accs = Append(@, val_acc),
                    !.best_val_acc = IF better THEN val_acc ELSE @,
                    !.saved_in = IF better THEN @ \cup {epoch} ELSE @,
                    !.pc = IF epoch = config.num_epochs THEN "completed" ELSE @]
              /\ saved_models' = IF better
                                 THEN save_model(trainer.fc_out, trainer.class_indices)
                                 ELSE saved_models
    /\ UNCHANGED <<config, train_classes, logVars, files, locVars, loadVars,
                   predVars, respVars, recVars, resolveVars, serveVars>>

TrainNext == NewTrainer \/ TrainBegin \/ TrainEpoch

SpecTrain == TrainInit /\ [][TrainNext]_vars

-----------------------------------------------------------------------------

(* crop_disease_project/backend/utils.py: the CSV logs *)

\* the file a logging function appends to and the header it writes
LogTarget(fn) ==
    IF fn = "log_prediction"
    THEN [file_path |-> "predictions.csv",
          header |-> <<"timestamp", "image_id", "predicted_label", "confidence">>]
    ELSE [file_path |-> "feedback.csv",
          header |-> <<"timestamp", "image_id", "predicted_label", "user_feedback",
                       "correct_label">>]

\* an empty logs directory and a few calls of either function, not yet started
LogInit ==
    /\ LocatorIdle
    /\ LoaderIdle
    /\ PredictIdle
    /\ RespondIdle
    /\ ResolveIdle
    /\ crop_arg = PyNone
    /\ disease_arg = PyNone
    /\ RecIdle
    /\ ServeIdle
    /\ TrainIdle
    /\ files = {}
    /\ logs_dir = [f \in {LogTarget(fn).file_path : fn \in {"log_prediction", "log_feedback"}} |->
                      [exists |-> FALSE, rows |-> <<>>]]
    /\ log_calls \in [1..MaxCalls ->
                        {[pc |-> "new", fn |-> fn, file_exists |-> FALSE] :
                            fn \in {"log_prediction", "log_feedback"}}]

\* file_exists = os.path.isfile(file_path)
LogCheck(c) ==
    /\ log_calls[c].pc = "new"
    /\ log_calls' = [log_calls EXCEPT
                        ![c].pc = "checked",
                        ![c].file_exists = logs_dir[LogTarget(log_calls[c].fn).file_path].exists]
    /\ UNCHANGED <<logs_dir, trainVars, files, locVars, loadVars, predVars, respVars,
                   recVars, resolveVars, serveVars>>

\* the with block: open(file_path, "a") creates the file, the header goes
\* first when isfile answered False, then the data row; the buffered rows
\* reach the end of the file together when the file is closed
LogAppend(c) ==
    /\ log_calls[c].pc = "checked"
    /\ LET target == LogTarget(log_calls[c].fn)
           header == [header |-> TRUE, columns |-> Len(target.header), call |-> 0]
           row    == [header |-> FALSE, columns |-> Len(target.header), call |-> c]
           before == logs_dir[target.file_path].rows
       IN  logs_dir' = [logs_dir EXCEPT ![target.file_path] =
                           [exists |-> TRUE,
                            rows |-> IF log_calls[c].file_exists
                                     THEN Append(before, row)
                                     ELSE before \o <<header, row>>]]
    /\ log_calls' = [log_calls EXCEPT ![c].pc = "done"]
    /\ UNCHANGED <<trainVars, files, locVars, loadVars, predVars, respVars,
                   recVars, resolveVars, serveVars>>

LogNext == \E c \in 1..MaxCalls : LogCheck(c) \/ LogAppend(c)

SpecLog == LogInit /\ [][LogNext]_vars

-----------------------------------------------------------------------------

\* C1: get_recommendation never fails, and the record it returns holds all
\* five advisory fields, each a non-empty string, whichever branch produced it.
C1_AllFieldsPresent ==
    /\ recState # "raised"
    /\ recState = "returned" =>
          \A f \in AdvisoryFields :
              /\ f \in DOMAIN recommendation
              /\ Len(recommendation[f]) > 0

-----------------------------------------------------------------------------
\* a dict as the set of its (key, value) pairs
AsMap(d) == {<<d[i].k, d[i].v>> : i \in 1..Len(d)}

\* the index -> label map of the bijection
CanonicalMap == {<<IntV(i - 1), StrV(bijection[i])>> : i \in 1..Len(bijection)}

BothResolved == digit_map.state # "idle" /\ label_map.state # "idle"

\* C2 as stated: for every bijection between labels and 0..N-1 the digit-keyed
\* file and the label-keyed file resolve to the identical index -> label map.
C2_SameMapForAnyLabels ==
    BothResolved =>
        /\ digit_map.state = "resolved"
        /\ label_map.state = "resolved"
        /\ AsMap(digit_map.dict) = AsMap(label_map.dict)
        /\ AsMap(digit_map.dict) = CanonicalMap

\* C2 amended: the two files resolve to the identical index -> label map
\* whenever the first key of the label-keyed file is not made of digits only;
\* no other key is looked at to tell the encodings apart.
C2_SameMapUnlessFirstLabelIsDigits ==
    (BothResolved /\ ~IsDigit(label_keyed[1].k)) =>
        /\ digit_map.state = "resolved"
        /\ label_map.state = "resolved"
        /\ AsMap(digit_map.dict) = AsMap(label_map.dict)
        /\ AsMap(digit_map.dict) = CanonicalMap

\* C2 witness: both files of a two-label bijection are resolved, the
\* label-keyed file starts with a non-digit label and goes on with a digit one.
C2_Witness ==
    /\ digit_map.state = "resolved"
    /\ label_map.state = "resolved"
    /\ Len(bijection) = 2
    /\ ~IsDigit(label_keyed[1].k)
    /\ IsDigit(label_keyed[2].k)

LoadFinished == load.state # "idle"

\* C3: when class-index resolution succeeds on a file of N members, the keys
\* of the map are exactly 0..N-1 and num_classes is N.
C3_DenseKeysAndCount ==
    load.resolved =>
        /\ DictKeys(load.idx_to_class) = {IntV(i) : i \in 0..(Len(class_file.items) - 1)}
        /\ load.num_classes = Len(class_file.items)

\* the class-index file is label-keyed and gives one index to two labels
DuplicateIndex ==
    /\ class_file.valid
    /\ Len(class_file.items) > 0
    /\ ~IsDigit(class_file.items[1].k)
    /\ \E i, j \in 1..Len(class_file.items) :
          i # j /\ class_file.items[i].v = class_file.items[j].v

\* C4: a label-keyed file that gives the same index to two labels makes
\* resolution fail; no index -> label map is produced.
C4_DuplicateIndexRejected ==
    (LoadFinished /\ DuplicateIndex) =>
        /\ load.state = "raised"
        /\ ~load.resolved

ClassFileMissingOrEmpty ==
    \/ ~PathExists(files, CLASS_INDICES_PATH)
    \/ class_file.valid /\ Len(class_file.items) = 0

\* the exceptions load_model_and_classes raises before it builds the network
ConfigErrorTypes == {"FileNotFoundError", "ValueError", "IndexError"}

\* C5: with the class-index file missing or holding an empty mapping,
\* load_model_and_classes raises a configuration error before the network is
\* built and before the weights are read, and returns nothing.
C5_MissingOrEmptyFailsEarly ==
    (LoadFinished /\ ClassFileMissingOrEmpty) =>
        /\ load.state = "raised"
        /\ load.error.type \in ConfigErrorTypes
        /\ ~load.model.built
        /\ ~load.model.weights_read
        /\ ~load.model.loaded

\* C5 witness: both files exist, the class-index file holds {} and the load
\* has failed.
C5_Witness ==
    /\ load.state = "raised"
    /\ PathExists(files, CLASS_INDICES_PATH)
    /\ PathExists(files, MODEL_PATH)
    /\ class_file.valid
    /\ Len(class_file.items) = 0

\* the first candidate of paths that exists, the first candidate if none does
ExpectedPath(paths) ==
    LET hits == {i \in 1..Len(paths) : paths[i] \in files}
    IN  IF hits = {} THEN paths[1] ELSE paths[CHOOSE i \in hits : \A j \in hits : i <= j]

\* C6: each of the two located paths is the first candidate of its list that
\* exists, or the first candidate when none exists; it is never None.
C6_FirstExistingElseFirst ==
    locState = "imported" =>
        /\ MODEL_PATH # NoPath
        /\ CLASS_INDICES_PATH # NoPath
        /\ MODEL_PATH = ExpectedPath(POSSIBLE_MODEL_PATHS)
        /\ CLASS_INDICES_PATH = ExpectedPath(POSSIBLE_CLASS_PATHS)

\* C6 witness: the weights exist at the third and fourth candidates only and
\* no class-index candidate exists; the third and the fallback are located.
C6_Witness ==
    /\ locState = "imported"
    /\ files = {POSSIBLE_MODEL_PATHS[3], POSSIBLE_MODEL_PATHS[4]}
    /\ MODEL_PATH = POSSIBLE_MODEL_PATHS[3]
    /\ CLASS_INDICES_PATH = POSSIBLE_CLASS_PATHS[1]

\* C7: a model is returned only if the weights file exists and its head width
\* equals num_classes, and it is then in evaluation mode; with the weights
\* absent, or with a head of another width, the load raises a model-load
\* error (or has already raised on the class indices) and returns no model.
C7_ModelOnlyIfWeightsFit ==
    /\ load.state = "returned" =>
          /\ PathExists(files, MODEL_PATH)
          /\ weights_file = load.num_classes
          /\ load.model.head = load.num_classes
          /\ load.model.loaded
          /\ load.model.eval
    /\ (LoadFinished /\ ~PathExists(files, MODEL_PATH)) =>
          /\ load.state = "raised"
          /\ ~load.model.loaded
          /\ \/ load.error.about = "class_indices"
             \/ load.error.about = "weights" /\ load.error.type = "FileNotFoundError"
    /\ (LoadFinished /\ load.resolved /\ weights_file # load.num_classes) =>
          /\ load.state = "raised"
          /\ ~load.model.loaded
          /\ load.error.about = "weights"
          /\ load.error.type \in {"RuntimeError", "FileNotFoundError"}

\* C7 witness: the class indices resolved, the weights file exists with a
\* head of another width, and the load has raised.
C7_Witness ==
    /\ load.state = "raised"
    /\ load.resolved
    /\ PathExists(files, MODEL_PATH)
    /\ weights_file # 0
    /\ weights_file # load.num_classes

\* C8: predict_image returns a label only for an arg-max index that is a key
\* of idx_to_class, and the label is the map's; for an index that is no key it
\* raises and returns no label.
C8_LabelOnlyForKnownIndex ==
    /\ predState = "returned" =>
          /\ DictHas(load.idx_to_class, IntV(argmax_idx))
          /\ predicted_label = DictGet(load.idx_to_class, IntV(argmax_idx))
    /\ (predState # "idle" /\ argmax_idx # -1
            /\ ~DictHas(load.idx_to_class, IntV(argmax_idx))) =>
          /\ predState = "raised"
          /\ predError \in {"ValueError", "KeyError"}
          /\ predicted_label = StrV(<<>>)

\* C8 witness: the arg-max index of a loaded model is no key of the class
\* map and predict_image has raised.
C8_Witness ==
    /\ predState = "raised"
    /\ argmax_idx >= 0
    /\ argmax_idx < load.model.head
    /\ ~DictHas(load.idx_to_class, IntV(argmax_idx))

HasSeparator == predicted_label.t = "str" /\ Contains(SEP, predicted_label.s)

\* C9: a label with the separator is split at its first occurrence: crop is
\* the prefix before it and holds no separator, disease is all that follows,
\* and crop + "___" + disease is the label again.
C9_SplitAtFirstSeparator ==
    (respState = "responded" /\ HasSeparator) =>
        /\ Len(handler_crop) = Find(predicted_label.s, SEP)
        /\ handler_crop = SubSeq(predicted_label.s, 1, Len(handler_crop))
        /\ ~Contains(SEP, handler_crop)
        /\ handler_crop \o SEP \o handler_disease = predicted_label.s
        /\ response.crop_name = handler_crop

\* C9 witness: a label with two separators has been parsed and the second
\* separator is inside disease.
C9_Witness ==
    /\ respState = "responded"
    /\ HasSeparator
    /\ Contains(SEP, handler_disease)
    /\ Len(handler_crop) > 0

\* C10: a label without the separator gives crop = the label and disease = "",
\* and "" is the disease of the response and of the call of get_recommendation.
C10_NoSeparatorEmptyDisease ==
    (respState = "responded" /\ predicted_label.t = "str" /\ ~HasSeparator) =>
        /\ handler_crop = predicted_label.s
        /\ handler_disease = <<>>
        /\ response.disease_name = <<>>
        /\ handler = "app" => disease_arg = PyStr(<<>>)

-----------------------------------------------------------------------------
\* the text of a str-or-None argument once stripped, "" for None
StrippedArg(x) == IF x.none THEN <<>> ELSE Strip(x.s)

BackendReturned == recState = "returned" /\ recEngine = "backend"

\* the disease argument is None, empty, whitespace only, or "healthy" in any
\* letter case once stripped
HealthyArgument ==
    \/ StrippedArg(disease_arg) = <<>>
    \/ Lower(StrippedArg(disease_arg)) = <<"h", "e", "a", "l", "t", "h", "y">>

\* C11: when the disease is empty, whitespace only or "healthy" in any letter
\* case, get_recommendation returns the "no disease detected" advisory, whose
\* description names the given crop, whether or not a table entry would match.
C11_HealthyAdvisoryFirst ==
    (BackendReturned /\ HealthyArgument) =>
        /\ recBranch = "healthy"
        /\ recommendation.disease_description =
              <<"The ">> \o StrippedArg(crop_arg) \o
              <<" crop appears to be healthy with no signs of disease detected.">>
        /\ recommendation.symptoms =
              <<"No symptoms detected. The crop appears healthy.">>
        /\ \A i \in 1..Len(RECOMMENDATIONS) :
              recommendation # RECOMMENDATIONS[i].rec

\* a whitespace-only disease with a crop that the partial match would find in
\* the table, answered with the healthy advisory
C11_Witness ==
    /\ BackendReturned
    /\ recBranch = "healthy"
    /\ crop_arg = PyStr(<<"P", "o", "t", "a", "t", "o">>)
    /\ disease_arg = PyStr(<<" ">>)
    /\ PartialMatch(StrippedArg(crop_arg), StrippedArg(disease_arg)) # 0
    /\ recommendation = HealthyRecord(<<"P", "o", "t", "a", "t", "o">>)

-----------------------------------------------------------------------------
\* the arguments are the two parts of table key i, split at its first "___"
ArgsParsedFromKey(i) ==
    /\ ~crop_arg.none
    /\ ~disease_arg.none
    /\ <<crop_arg.s, disease_arg.s>> = SplitOnce(RECOMMENDATIONS[i].key)

\* C12: for every key K of the table, get_recommendation called with the crop
\* and the disease parsed from K at its first "___" returns exactly the record
\* stored under K, by the exact lookup, in both recommendation engines.
C12_ExactMatchWins ==
    \A i \in 1..Len(RECOMMENDATIONS) :
        (recState = "returned" /\ ArgsParsedFromKey(i)) =>
            /\ recBranch = "exact"
            /\ recommendation = RECOMMENDATIONS[i].rec

\* the key with a trailing underscore resolved by the backend engine, every
\* key of the table being among the argument pairs tried
C12_Witness ==
    /\ BackendReturned
    /\ ArgsParsedFromKey(6)
    /\ recommendation = Rec_Corn_maize_Common_rust.rec
    /\ \A i \in 1..Len(RECOMMENDATIONS) :
          /\ SplitOnce(RECOMMENDATIONS[i].key)[1] \in CropArgs
          /\ SplitOnce(RECOMMENDATIONS[i].key)[2] \in DiseaseArgs

-----------------------------------------------------------------------------
\* the key built from the stripped arguments with every space turned into an
\* underscore, the "___" separator kept
UnderscoredKey ==
    Replace(StrippedArg(crop_arg), <<" ">>, <<"_">>) \o SEP \o
    Replace(StrippedArg(disease_arg), <<" ">>, <<"_">>)

\* C13: when the exact lookup misses, the key with its spaces replaced by
\* underscores is looked up and a hit returns that table record, so that
\* ("Potato", "Early blight") resolves to the record of Potato___Early_blight
\* and never to the generic fallback.
C13_NormalizedKeyResolves ==
    (BackendReturned /\ ~HealthyArgument /\ TableGet(UnderscoredKey) # 0) =>
        /\ recBranch \in {"exact", "normalized"}
        /\ recommendation = RECOMMENDATIONS[TableGet(UnderscoredKey)].rec

-----------------------------------------------------------------------------
\* the composite key of the stripped arguments
ComposedKey == StrippedArg(crop_arg) \o SEP \o StrippedArg(disease_arg)

\* neither the composite key nor its normalized form is a key of the table
NoExactOrNormalizedKey ==
    /\ TableGet(ComposedKey) = 0
    /\ TableGet(NormalizeKey(ComposedKey)) = 0

\* the table entries whose lower-cased key contains the lower-cased crop and
\* the lower-cased disease
KeysContainingBoth ==
    {i \in 1..Len(RECOMMENDATIONS) :
        /\ Contains(Lower(StrippedArg(crop_arg)), Lower(RECOMMENDATIONS[i].key))
        /\ Contains(Lower(StrippedArg(disease_arg)), Lower(RECOMMENDATIONS[i].key))}

\* C14: when the disease is not healthy and neither the exact nor the
\* normalized key exists, get_recommendation returns the record of the first
\* table key, in insertion order, whose lowercase form contains both the
\* lowercase crop and the lowercase disease; ("Potato", "blight") therefore
\* always yields the record of Potato___Early_blight.
C14_FirstPartialMatchInOrder ==
    (BackendReturned /\ ~HealthyArgument /\ NoExactOrNormalizedKey
        /\ KeysContainingBoth # {}) =>
        /\ recBranch = "partial"
        /\ \E i \in KeysContainingBoth :
              /\ \A j \in KeysContainingBoth : i <= j
              /\ recommendation = RECOMMENDATIONS[i].rec

\* ("Potato", "blight"): two keys contain both, the earlier one is returned
C14_Witness ==
    /\ BackendReturned
    /\ crop_arg = PyStr(<<"P", "o", "t", "a", "t", "o">>)
    /\ disease_arg = PyStr(<<"b", "l", "i", "g", "h", "t">>)
    /\ NoExactOrNormalizedKey
    /\ KeysContainingBoth = {2, 3}
    /\ recommendation = Rec_Potato_Early_blight.rec

-----------------------------------------------------------------------------
\* the record is the generic advisory of the backend engine
IsGenericAdvisory(rec) ==
    /\ DOMAIN rec = AdvisoryFields
    /\ StartsWith(rec.disease_description,
                  <<"The system detected a potential issue with ">>)
    /\ \A i \in 1..Len(RECOMMENDATIONS) : rec # RECOMMENDATIONS[i].rec

\* the healthy test, the exact lookup, the normalized lookup and the partial
\* match all miss
EveryStepMisses ==
    /\ ~HealthyArgument
    /\ NoExactOrNormalizedKey
    /\ KeysContainingBoth = {}

\* C15: get_recommendation returns the generic advisory exactly when the
\* healthy test, the exact, the normalized and the partial step all miss; its
\* description then names the given crop and the given disease, and each of its
\* five fields is non-empty.
C15_FallbackOnlyWhenAllMiss ==
    BackendReturned =>
        /\ IsGenericAdvisory(recommendation) <=> EveryStepMisses
        /\ recBranch = "fallback" <=> EveryStepMisses
        /\ EveryStepMisses =>
              /\ recommendation.disease_description =
                    <<"The system detected a potential issue with ">>
                    \o StrippedArg(crop_arg)
                    \o <<" crop. Detected condition: ">>
                    \o StrippedArg(disease_arg)
                    \o <<". Detailed information for this specific disease is not available in the rule base.">>
              /\ \A f \in AdvisoryFields : Len(recommendation[f]) > 0

\* an unknown crop with an unknown disease, answered with the generic advisory
\* that names both
C15_Witness ==
    /\ BackendReturned
    /\ crop_arg = PyStr(<<"U", "n", "k", "n", "o", "w", "n", "C", "r", "o", "p">>)
    /\ disease_arg =
          PyStr(<<"U", "n", "k", "n", "o", "w", "n", "D", "i", "s", "e", "a", "s", "e">>)
    /\ EveryStepMisses
    /\ IsGenericAdvisory(recommendation)
    /\ Contains(crop_arg.s, recommendation.disease_description)
    /\ Contains(disease_arg.s, recommendation.disease_description)

-----------------------------------------------------------------------------
\* request r was answered by the handler of app.py after its upload was read
AppAnswered(r) ==
    /\ entry_point = "app"
    /\ requests[r].pc = "done"
    /\ AppBeforeRead(requests[r].upload) = NoResponse

\* the upload of request r decodes to an image for which the forward pass runs
\* and the arg-max index has a label string in the class map g.idx_to_class
YieldsLabel(g, r) ==
    LET body == requests[r].upload.body
        idx  == TorchMax(Softmax(body.logits)).predicted_idx
    IN  /\ body.kind = "image"
        /\ body.forward_ok
        /\ DictHas(g.idx_to_class, IntV(idx))
        /\ DictGet(g.idx_to_class, IntV(idx)).t = "str"

\* C16: for every label string the loaded class map yields (with or without
\* separator, in the table or not, healthy or not), a decodable image uploaded
\* to /predict of app.py is answered with a 200 response whose confidence lies
\* in [0, 1] and whose recommendation has a non-empty disease_description.
C16_PredictAnswersEveryLabel ==
    \A r \in DOMAIN requests :
        (AppAnswered(r) /\ YieldsLabel(app_globals, r)) =>
            /\ requests[r].response.http_status = 200
            /\ requests[r].response.confidence.den > 0
            /\ requests[r].response.confidence.num >= 0
            /\ requests[r].response.confidence.num <= requests[r].response.confidence.den
            /\ "disease_description" \in DOMAIN requests[r].response.recommendation
            /\ Len(requests[r].response.recommendation.disease_description) > 0

\* a label without separator, predicted with confidence one half
C16_Witness ==
    \E r \in DOMAIN requests :
        /\ AppAnswered(r)
        /\ YieldsLabel(app_globals, r)
        /\ ~Contains(SEP, requests[r].response.predicted_class)
        /\ requests[r].response.confidence = [num |-> 5000, den |-> 10000]
        /\ Len(requests[r].response.recommendation.disease_description) > 0

-----------------------------------------------------------------------------
\* the fields every successful /predict response holds
PredictResponseFields ==
    {"predicted_class", "confidence", "crop_name", "disease_name", "recommendation"}

\* C17: every HTTP 200 response of /predict, in app.py and in server.py alike,
\* holds predicted_class, confidence, crop_name, disease_name and
\* recommendation, the latter being the advisory record resolved for
\* (crop_name, disease_name).
C17_ResponseShape ==
    \A r \in DOMAIN requests :
        (requests[r].pc = "done" /\ requests[r].response.http_status = 200) =>
            /\ PredictResponseFields \subseteq DOMAIN requests[r].response
            /\ requests[r].response.recommendation =
                  get_recommendation(PyStr(requests[r].response.crop_name),
                                     PyStr(requests[r].response.disease_name)).rec

-----------------------------------------------------------------------------
\* the response the served handler gives to an upload when it is the only
\* request the process ever receives after its startup load
IsolatedOutcome(upload) ==
    IF entry_point = "app"
    THEN IF AppBeforeRead(upload) # NoResponse
         THEN AppBeforeRead(upload)
         ELSE AppAfterRead(BoundGlobals(load), upload)
    ELSE IF ServerBeforeRead(BoundGlobals(load), upload) # NoResponse
         THEN ServerBeforeRead(BoundGlobals(load), upload)
         ELSE ServerAfterRead(BoundGlobals(load), upload)

\* an upload that fails in either handler: a content type that is no image,
\* an empty body, bytes that are no image, a failing forward pass, or an
\* arg-max index without a label
FailingUpload(upload) ==
    \/ upload.content_type = PyStr(<<"t", "e", "x", "t", "/", "p", "l", "a", "i", "n">>)
    \/ upload.body.kind \in {"empty", "garbage"}
    \/ ~upload.body.forward_ok
    \/ ~DictHas(load.idx_to_class,
                IntV(TorchMax(Softmax(upload.body.logits)).predicted_idx))

\* C18: a failing request (bad content type, empty body, undecodable bytes,
\* prediction error) is rejected with a 4xx/5xx response of its own; the process
\* keeps serving with its globals bound, and every request, concurrent or
\* later, gets the response it would get if it were alone.
C18_FailuresAreIsolated ==
    /\ process = "serving"
    /\ app_globals.bound
    /\ entry_point = "server" => server_globals.bound
    /\ \A r \in DOMAIN requests :
          requests[r].pc = "done" =>
                /\ requests[r].response = IsolatedOutcome(requests[r].upload)
                /\ FailingUpload(requests[r].upload) =>
                      requests[r].response.http_status \in {400, 500}

\* a request rejected for a prediction error and another one answered with a
\* 200 by the same process
C18_Witness ==
    \E r1, r2 \in DOMAIN requests :
        /\ r1 # r2
        /\ requests[r1].pc = "done"
        /\ requests[r1].upload.body.kind = "image"
        /\ FailingUpload(requests[r1].upload)
        /\ requests[r1].response.http_status = 500
        /\ requests[r2].pc = "done"
        /\ requests[r2].response.http_status = 200

-----------------------------------------------------------------------------
\* C20: after startup, no step of the handling of a /predict request modifies
\* the loaded model, the class-index map or the RECOMMENDATIONS table: the
\* globals of both modules and the table are the same after every handler step.
C20_RequestsLeaveGlobalsAlone ==
    [][ requests' # requests =>
            /\ app_globals' = app_globals
            /\ server_globals' = server_globals
            /\ rule_base' = rule_base ]_vars

\* a request answered with a 200 after a forward pass, with the globals still
\* those bound at startup and the table still the one of the module
C20_Witness ==
    /\ \E r \in DOMAIN requests :
          /\ requests[r].pc = "done"
          /\ requests[r].response.http_status = 200
    /\ app_globals = BoundGlobals(load)
    /\ entry_point = "server" => server_globals = BoundGlobals(load)
    /\ rule_base = RECOMMENDATIONS

-----------------------------------------------------------------------------
\* the candidate paths searched for the file the error is about
CandidatesSearched(about) ==
    IF about = "class_indices" THEN POSSIBLE_CLASS_PATHS ELSE POSSIBLE_MODEL_PATHS

\* C19: when the load of the class map or of the model fails at startup, the
\* initialization of the process is aborted, so that it never serves requests,
\* and the diagnostic of a missing file lists every candidate path searched
\* for it.
C19_FailedStartupAborts ==
    diagnostic # NoError =>
        /\ process = "aborted"
        /\ diagnostic.type = "FileNotFoundError" =>
              diagnostic.tried = CandidatesSearched(diagnostic.about)

-----------------------------------------------------------------------------
\* the sum of the numerators of the first n probabilities
RECURSIVE SumNum(_, _)
SumNum(probs, n) == IF n = 0 THEN 0 ELSE probs[n].num + SumNum(probs, n - 1)

\* request r was answered with a 200, so predict_image returned for its upload
PredictReturned(r) ==
    /\ requests[r].pc = "done"
    /\ requests[r].response.http_status = 200

\* the confidence predict_image returned for request r: server.py passes it
\* on as it is, app.py rounds it to four decimals
ReturnedConfidence(r, x) ==
    IF entry_point = "server"
    THEN requests[r].response.confidence = x
    ELSE requests[r].response.confidence = Round4(x)

\* C21: the confidence returned by predict_image is the probability of the
\* arg-max class under a softmax over the model outputs: the distribution has
\* one probability per class, each in [0, 1], and sums to 1; the confidence is
\* the probability at the predicted index, it is the maximum of the
\* distribution, at least 1/num_classes and at most 1.
C21_ConfidenceIsMaxSoftmax ==
    \A r \in DOMAIN requests :
        PredictReturned(r) =>
            LET probs == Softmax(requests[r].upload.body.logits)
                best  == TorchMax(probs)
                n     == load.num_classes
            IN  /\ Len(probs) = n
                /\ \A i \in 1..n :
                      /\ probs[i].den = probs[1].den
                      /\ probs[i].den > 0
                      /\ probs[i].num >= 0
                      /\ probs[i].num <= probs[i].den
                      /\ probs[i].num <= best.confidence.num
                /\ SumNum(probs, n) = probs[1].den
                /\ best.confidence = probs[best.predicted_idx + 1]
                /\ best.confidence.num * n >= best.confidence.den
                /\ best.confidence.num <= best.confidence.den
                /\ DictGet(load.idx_to_class, IntV(best.predicted_idx)).s =
                      requests[r].response.predicted_class
                /\ ReturnedConfidence(r, best.confidence)

\* server.py returns the confidence 2/3 of the second of two classes
C21_Witness ==
    \E r \in DOMAIN requests :
        /\ PredictReturned(r)
        /\ entry_point = "server"
        /\ requests[r].upload.body.logits = <<0, 1>>
        /\ requests[r].response.confidence = [num |-> 2, den |-> 3]

-----------------------------------------------------------------------------
\* C22: the class-index map and the model are constructed exactly once per
\* process start: load_model_and_classes has run once when the process serves,
\* whichever module is the entry point, and it never runs a second time.
C22_LoadedExactlyOnce ==
    /\ load_calls <= 1
    /\ process = "serving" => load_calls = 1

-----------------------------------------------------------------------------
\* the upload names a content type outside the list app.py accepts
RefusedType(upload) ==
    /\ ~upload.content_type.none
    /\ upload.content_type.s # <<>>
    /\ upload.content_type.s \notin
          { <<"i", "m", "a", "g", "e", "/", "j", "p", "e", "g">>,
            <<"i", "m", "a", "g", "e", "/", "j", "p", "g">>,
            <<"i", "m", "a", "g", "e", "/", "p", "n", "g">>,
            <<"i", "m", "a", "g", "e", "/", "b", "m", "p">> }

\* C23: in /predict of app.py the checks run in the order content type, empty
\* body, image decode, inference: a refused content type gives 400 and the
\* body is never read; then an empty body gives 400, an undecodable image
\* gives 400 without inference, an inference failure gives 500; no 400 comes
\* out as a 500; a missing content type skips the type check.
C23_AppChecksInOrder ==
    \A r \in DOMAIN requests :
        entry_point = "app" =>
            LET upload == requests[r].upload
                resp   == requests[r].response
            IN  /\ requests[r].pc = "reading" => ~RefusedType(upload)
                /\ requests[r].pc = "done" =>
                      /\ RefusedType(upload) =>
                            /\ resp = [http_status |-> 400, detail |-> "Invalid file type"]
                            /\ ~requests[r].inferred
                      /\ (~RefusedType(upload) /\ upload.body.kind = "empty") =>
                            /\ resp = [http_status |-> 400,
                                       detail |-> "Uploaded file is empty"]
                            /\ ~requests[r].inferred
                      /\ (~RefusedType(upload) /\ upload.body.kind = "garbage") =>
                            /\ resp = [http_status |-> 400,
                                       detail |-> "Failed to process image file"]
                            /\ ~requests[r].inferred
                      /\ (~RefusedType(upload) /\ upload.body.kind = "image"
                            /\ ~YieldsLabel(app_globals, r)) =>
                            /\ resp.http_status = 500
                            /\ requests[r].inferred
                      /\ (upload.content_type.none /\ YieldsLabel(app_globals, r)) =>
                            resp.http_status = 200

\* a text/plain upload with an empty body, refused for its type, and an upload
\* without content type answered with a 200
C23_Witness ==
    \E r1, r2 \in DOMAIN requests :
        /\ entry_point = "app"
        /\ requests[r1].pc = "done"
        /\ RefusedType(requests[r1].upload)
        /\ requests[r1].upload.body.kind = "empty"
        /\ requests[r1].response.detail = "Invalid file type"
        /\ requests[r2].pc = "done"
        /\ requests[r2].upload.content_type.none
        /\ requests[r2].response.http_status = 200

-----------------------------------------------------------------------------
\* what server.py answers while its global model is None, and what /health
\* answers in general
UnloadedServerAnswers503 ==
    (entry_point = "server" /\ process = "serving") =>
        /\ ~server_globals.bound =>
              \A r \in DOMAIN requests :
                  requests[r].pc # "new" =>
                      /\ requests[r].pc = "done"
                      /\ ~requests[r].inferred
                      /\ requests[r].response =
                            [http_status |-> 503, detail |-> "Model not loaded"]
        /\ handler = "health" =>
              /\ ~server_globals.bound => response.http_status = 503
              /\ response.status = "healthy" <=> server_globals.bound
              /\ response.status = "healthy" <=> server_globals.model.loaded

\* C24: in server.py, while the global model is None, /predict answers 503
\* without reading the upload or running inference and /health answers 503;
\* /health answers "healthy" if and only if the model is loaded; and a loaded
\* model never becomes None again.
C24_UnloadedServer ==
    /\ []UnloadedServerAnswers503
    /\ [][server_globals.bound => server_globals'.bound]_vars

\* server.py serving with model None after its startup load failed: /health
\* answered 503 and a /predict request was answered 503
C24_Witness ==
    /\ entry_point = "server"
    /\ process = "serving"
    /\ ~server_globals.bound
    /\ diagnostic # NoError
    /\ handler = "health"
    /\ response.http_status = 503
    /\ \E r \in DOMAIN requests :
          /\ requests[r].pc = "done"
          /\ requests[r].upload.body.kind = "image"
          /\ requests[r].response.http_status = 503

-----------------------------------------------------------------------------
\* the recommendation app.py returns for the predicted label
AppRecommendation ==
    LET parsed == ParseLabelApp(predicted_label.s)
    IN  get_recommendation(PyStr(parsed[1]), PyStr(parsed[2])).rec

\* C25: for every predicted label, the description, symptoms, organic,
\* chemical and preventive texts of the server.py response equal the
\* disease_description, symptoms, treatment_organic, treatment_chemical and
\* preventive_measures of the recommendation app.py returns for that label.
C25_ServerAgreesWithApp ==
    (handler = "server" /\ respState = "responded") =>
        /\ AdvisoryFields \subseteq DOMAIN AppRecommendation
        /\ response.description = AppRecommendation.disease_description
        /\ response.symptoms = AppRecommendation.symptoms
        /\ response.organic = AppRecommendation.treatment_organic
        /\ response.chemical = AppRecommendation.treatment_chemical
        /\ response.preventive = AppRecommendation.preventive_measures

-----------------------------------------------------------------------------
\* C26: whenever get_recommendation returns the curated record of a table key,
\* the requested crop is not empty, the crop part of that key (before "___")
\* contains the requested crop and its disease part (after "___") contains the
\* requested disease, case-insensitively.
C26_CuratedRecordMatchesParts ==
    \A i \in 1..Len(RECOMMENDATIONS) :
        (BackendReturned /\ recommendation = RECOMMENDATIONS[i].rec) =>
            /\ StrippedArg(crop_arg) # <<>>
            /\ Contains(Lower(StrippedArg(crop_arg)),
                        Lower(SplitOnce(RECOMMENDATIONS[i].key)[1]))
            /\ Contains(Lower(StrippedArg(disease_arg)),
                        Lower(SplitOnce(RECOMMENDATIONS[i].key)[2]))

-----------------------------------------------------------------------------
\* C27: for every subset of the candidate files that exists, the resolved
\* weights path and the resolved class-index path stand at the same position
\* of POSSIBLE_MODEL_PATHS and POSSIBLE_CLASS_PATHS, so that both come from
\* the same candidate directory.
C27_PathsFromSameCandidate ==
    locState = "imported" =>
        \E i \in 1..Len(POSSIBLE_MODEL_PATHS) :
            /\ MODEL_PATH = POSSIBLE_MODEL_PATHS[i]
            /\ CLASS_INDICES_PATH = POSSIBLE_CLASS_PATHS[i]


\* the epochs whose validation accuracy is strictly above every earlier one
EpochsAboveBest ==
    {e \in 1..Len(trainer.val_accs) :
        \A k \in 1..(e - 1) : trainer.val_accs[e] > trainer.val_accs[k]}

\* C28: once train() has completed (num_epochs >= 1), the weights file and
\* class_indices.json are at the save path whatever the validation accuracies
\* were, and they were written exactly in the epochs whose validation accuracy
\* strictly exceeded the best seen before.
C28_TrainingWritesArtifacts ==
    trainer.pc = "completed" =>
        /\ saved_models.written
        /\ trainer.saved_in = EpochsAboveBest

\* C29: the final-layer width of the saved weights equals the number of
\* entries of the class_indices.json saved beside it, for every number of
\* class sub-directories of the training directory.
C29_ArtifactPairIsLoadable ==
    saved_models.written =>
        saved_models.weights = Len(saved_models.class_indices)


\* the rows of a log file that carry the data of one call
RowsOfCall(f, c) ==
    {i \in 1..Len(logs_dir[f].rows) :
        ~logs_dir[f].rows[i].header /\ logs_dir[f].rows[i].call = c}

\* C30: whatever the interleaving of the logging calls on one logs directory,
\* a log file that exists has exactly one header row, as its first row, and
\* exactly one data row for each call that has finished.
C30_OneHeaderFirst ==
    \A f \in DOMAIN logs_dir :
        logs_dir[f].exists =>
            /\ logs_dir[f].rows # <<>>
            /\ logs_dir[f].rows[1].header
            /\ \A i \in 2..Len(logs_dir[f].rows) : ~logs_dir[f].rows[i].header
            /\ \A c \in 1..MaxCalls :
                  LogTarget(log_calls[c].fn).file_path = f =>
                      Cardinality(RowsOfCall(f, c)) =
                          (IF log_calls[c].pc = "done" THEN 1 ELSE 0)

=============================================================================
